---- MODULE Spec2Model ----
(***************************************************************************)
(* Model of mcm (src/mcm/mcm.py): the package lifecycle engine, its cache  *)
(* file, the descriptor store and the calls it makes to the external       *)
(* installer scm.                                                          *)
(*                                                                         *)
(* The program is single threaded and synchronous.  Every public method    *)
(* (load, unload, install, remove) is translated as an operator that runs  *)
(* the method on an interpreter state and yields the ordered list of its   *)
(* externally visible steps (cache writes, directory changes, descriptor   *)
(* file changes, external calls).  The state machine takes one step of     *)
(* the running method at a time, so every intermediate state of the disk   *)
(* is a state of the model; an external call (scm, a fetch) may fail at    *)
(* its step, which raises and ends the method there.                       *)
(*                                                                         *)
(* Names are sequences of characters, so that the prefix matching of       *)
(* re.match and the joined directory name meta + "." + name are computed.  *)
(***************************************************************************)
EXTENDS Integers, Sequences, FiniteSets, TLC

\* ------------------------------------------------------------------ helpers

Put(f, k, v) == [x \in (DOMAIN f) \cup {k} |-> IF x = k THEN v ELSE f[x]]

Del(f, k) == [x \in (DOMAIN f) \ {k} |-> f[x]]

EmptyMap == [x \in {} |-> x]

SeqRange(s) == {s[i] : i \in 1..Len(s)}

\* ------------------------------------------------------------ name strings

PkgA == <<"a">>
PkgAB == <<"a", "b">>
PkgB == <<"b">>

PatAll == <<".", "*">>
PatAnchoredA == <<"^", "a", "$">>

\* meta_package_name + '.' + package_name
JoinedName(meta_package_name, package_name) ==
    <<meta_package_name, ".">> \o package_name

\* re.match(pattern, string): the pattern has to match at the start of the
\* string and need not consume it.  Pattern syntax covered: literal
\* characters, '.', 'x*', '^' (start of the string) and '$' (end of it).
RECURSIVE ReMatchAt(_, _, _)
ReMatchAt(pattern, string, atStart) ==
    IF pattern = <<>> THEN TRUE
    ELSE IF Head(pattern) = "^" THEN atStart /\ ReMatchAt(Tail(pattern), string, atStart)
    ELSE IF Head(pattern) = "$" THEN string = <<>> /\ ReMatchAt(Tail(pattern), string, atStart)
    ELSE IF Len(pattern) >= 2 /\ pattern[2] = "*"
         THEN \E k \in 0..Len(string) :
                 /\ \A i \in 1..k : Head(pattern) = "." \/ string[i] = Head(pattern)
                 /\ ReMatchAt(Tail(Tail(pattern)), SubSeq(string, k + 1, Len(string)),
                              atStart /\ k = 0)
    ELSE /\ string # <<>>
         /\ (Head(pattern) = "." \/ Head(string) = Head(pattern))
         /\ ReMatchAt(Tail(pattern), Tail(string), FALSE)

ReMatch(pattern, string) == ReMatchAt(pattern, string, TRUE)

\* --------------------------------------------------- descriptors (fixtures)

\* A descriptor document is the parsed TOML: name, uri and the ordered
\* mapping 'packages'.  A package has 'installation-mechanisms' (here
\* mechs, the ordered mapping's keys) and optionally 'dependencies' and
\* 'target'.  A URI is its sequence of path components.

UriM == <<"srv", "m.toml">>
UriN == <<"srv", "n.toml">>

DocM ==
    [name |-> "M", uri |-> UriM, valid |-> TRUE,
     packages |-> << [name |-> PkgAB, mechs |-> <<"tar">>],
                     [name |-> PkgA,  mechs |-> <<"tar">>] >>]

DocN ==
    [name |-> "N", uri |-> UriN, valid |-> TRUE,
     packages |-> << [name |-> PkgB, mechs |-> <<"tar">>,
                      dependencies |-> << <<"M", PatAnchoredA>> >>] >>]

\* A descriptor whose packages differ in what they declare for acquisition
\* and for the target: two mechanisms of known kinds and two candidate
\* targets; an unknown kind before a known one; no mechanism; an empty
\* candidate list.
PkgT == <<"t">>
PkgS == <<"s">>
PkgN == <<"n">>
PkgE == <<"e">>

UriP == <<"srv", "p.toml">>

DocP ==
    [name |-> "P", uri |-> UriP, valid |-> TRUE,
     packages |-> << [name |-> PkgT, mechs |-> <<"tar", "git">>,
                      target |-> <<"opt", "home">>],
                     [name |-> PkgS, mechs |-> <<"svn", "git">>],
                     [name |-> PkgN, mechs |-> <<>>],
                     [name |-> PkgE, mechs |-> <<"tar">>, target |-> <<>>] >>]

\* A revision of descriptor M that fails the schema, served at its own URI
UriX == <<"srv", "x.toml">>

DocX == [name |-> "M", uri |-> UriX, valid |-> FALSE, packages |-> DocM.packages]

\* A descriptor with two packages that depend on each other, and a package
\* that depends on one without dependencies.
PkgX == <<"x">>
PkgY == <<"y">>
PkgZ == <<"z">>
PkgW == <<"w">>

UriC == <<"srv", "c.toml">>

DocC ==
    [name |-> "C", uri |-> UriC, valid |-> TRUE,
     packages |-> << [name |-> PkgX, mechs |-> <<"tar">>,
                      dependencies |-> << <<"C", PkgY>> >>],
                     [name |-> PkgY, mechs |-> <<"tar">>,
                      dependencies |-> << <<"C", PkgX>> >>],
                     [name |-> PkgZ, mechs |-> <<"tar">>],
                     [name |-> PkgW, mechs |-> <<"tar">>,
                      dependencies |-> << <<"C", PkgZ>> >>] >>]

\* A descriptor with a package and a package that depends on it
PkgP1 == <<"p", "1">>
PkgP2 == <<"p", "2">>

UriD == <<"srv", "d.toml">>

DocD ==
    [name |-> "D", uri |-> UriD, valid |-> TRUE,
     packages |-> << [name |-> PkgP1, mechs |-> <<"tar">>],
                     [name |-> PkgP2, mechs |-> <<"tar">>,
                      dependencies |-> << <<"D", PkgP1>> >>] >>]

\* The descriptor of M as served from a second place, under the file base
\* name of N's URI.
UriO == <<"oth", "n.toml">>

DocO == [name |-> "M", uri |-> UriO, valid |-> TRUE, packages |-> DocM.packages]

DocIds == {"docM", "docN"}

DocOf(id) ==
    IF id = "docM" THEN DocM
    ELSE IF id = "docN" THEN DocN
    ELSE IF id = "docX" THEN DocX
    ELSE IF id = "docC" THEN DocC
    ELSE IF id = "docD" THEN DocD
    ELSE IF id = "docO" THEN DocO
    ELSE DocP

Uris == {UriM, UriN}

\* What urlopen(uri).read() followed by toml.loads returns.
Served(uri) ==
    IF uri = UriM THEN "docM"
    ELSE IF uri = UriN THEN "docN"
    ELSE IF uri = UriX THEN "docX"
    ELSE IF uri = UriO THEN "docO"
    ELSE "docP"

\* os.path.basename(urlparse(uri).path)
BaseName(uri) == uri[Len(uri)]

FileNames == {BaseName(u) : u \in Uris}

MetaNames == {"M", "N"}

\* ------------------------------------------------------ engine environment

None == "None"

PackagesDir == "packages"

\* self.package_statuses
PackageStatuses == {"notloaded", "loaded", "midinstall", "midremove", "installed"}

\* One run of the tool: the constructor's arguments (target_dir, hostname,
\* tags), the capabilities found at import time (USING_GITPYTHON,
\* USING_TARFILE), the directories that exist outside the tool's own data,
\* and the order in which os.listdir yields the descriptor files.
Envs ==
    { [target_dir |-> "home", hostname |-> None, tags |-> <<>>,
       git |-> FALSE, tar |-> TRUE, existing |-> {"home"},
       order |-> <<"m.toml", "n.toml">>] }

\* The builds and machines of the acquisition runs: each of GitPython and
\* tarfile importable or not, and the candidate target directories that
\* exist.
BuildEnvs ==
    { [target_dir |-> "home", hostname |-> None, tags |-> <<>>,
       git |-> g, tar |-> t, existing |-> ex, order |-> <<"p.toml">>] :
      g \in BOOLEAN, t \in BOOLEAN, ex \in {{}, {"home"}, {"opt", "home"}} }

\* ------------------------------------------------------ interpreter state

\* st: the disk as the running method sees it, the steps it has taken and
\* the exception it has raised ("none" while it runs).
NoError == "none"

Raise(st, e) == IF st.raised = NoError THEN [st EXCEPT !.raised = e] ELSE st

Apply(disk, ev) ==
    CASE ev.kind = "write_cache" -> [disk EXCEPT !.cache = ev.cache]
      [] ev.kind = "acquire"     -> [disk EXCEPT !.dirs = @ \cup {ev.dir}]
      [] ev.kind = "rmtree"      -> [disk EXCEPT !.dirs = @ \ {ev.dir}]
      [] ev.kind = "remove_file" -> [disk EXCEPT !.store = Del(@, ev.file)]
      [] ev.kind = "write_file"  -> [disk EXCEPT !.store = Put(@, ev.file, ev.doc)]
      [] OTHER                   -> disk

Do(st, ev) ==
    IF st.raised # NoError THEN st
    ELSE [Apply(st, ev) EXCEPT !.steps = Append(@, ev)]

\* json.dump(cache, f) on the cache file
WriteCache(st, cache) == Do(st, [kind |-> "write_cache", cache |-> cache])

\* ------------------------------------------------------- descriptor store

NoFile == "nofile"

\* A file of the package-configs directory that toml.load does not parse
\* (load writes only what toml.loads accepted; such a file comes from
\* outside).
Junk == "junk"

\* What toml.load raises on it
TomlError == "TomlDecodeError"

\* The lookup with the try/except of list_packages (lines 531-536): a file
\* that does not parse is passed over.
RECURSIVE FindInOrder_SkipsJunk(_, _, _)
FindInOrder_SkipsJunk(store, order, meta_package_name) ==
    IF order = <<>> THEN NoFile
    ELSE IF Head(order) \in DOMAIN store /\ store[Head(order)] # Junk
            /\ DocOf(store[Head(order)]).name = meta_package_name
         THEN Head(order)
    ELSE FindInOrder_SkipsJunk(store, Tail(order), meta_package_name)

\* _find_meta_package_by_name: the first file, in listing order, whose
\* document carries the name; toml.load is called on every file up to that
\* one and its exception is not caught.
RECURSIVE FindInOrder(_, _, _)
FindInOrder(store, order, meta_package_name) ==
    IF order = <<>> THEN NoFile
    ELSE IF Head(order) \in DOMAIN store /\ store[Head(order)] = Junk
         THEN TomlError
    ELSE IF Head(order) \in DOMAIN store
            /\ DocOf(store[Head(order)]).name = meta_package_name
         THEN Head(order)
    ELSE FindInOrder(store, Tail(order), meta_package_name)

FindMetaPackageByName(st, env, meta_package_name) ==
    FindInOrder(st.store, env.order, meta_package_name)

\* ------------------------------------------------------------- state cache

\* Mutant of GetPackageCache: a record whose status is none of
\* package_statuses is read as not loaded.
GetPackageCache_Coerces(st, meta_package_name, package_name) ==
    IF JoinedName(meta_package_name, package_name) \notin st.dirs
    THEN [raised |-> NoError, rec |-> [status |-> "notloaded"]]
    ELSE IF \/ meta_package_name \notin DOMAIN st.cache
            \/ package_name \notin DOMAIN st.cache[meta_package_name]
            \/ "status" \notin DOMAIN st.cache[meta_package_name][package_name]
         THEN [raised |-> "CacheTampered", rec |-> EmptyMap]
    ELSE IF st.cache[meta_package_name][package_name].status \notin PackageStatuses
         THEN [raised |-> NoError, rec |-> [status |-> "notloaded"]]
    ELSE [raised |-> NoError, rec |-> st.cache[meta_package_name][package_name]]

\* _get_package_cache: [raised, rec]
GetPackageCache(st, meta_package_name, package_name) ==
    IF JoinedName(meta_package_name, package_name) \notin st.dirs
    THEN [raised |-> NoError, rec |-> [status |-> "notloaded"]]
    ELSE IF \/ meta_package_name \notin DOMAIN st.cache
            \/ package_name \notin DOMAIN st.cache[meta_package_name]
            \/ "status" \notin DOMAIN st.cache[meta_package_name][package_name]
         THEN [raised |-> "CacheTampered", rec |-> EmptyMap]
    ELSE IF st.cache[meta_package_name][package_name].status \notin PackageStatuses
         THEN [raised |-> "CacheTampered", rec |-> EmptyMap]
    ELSE [raised |-> NoError, rec |-> st.cache[meta_package_name][package_name]]

\* The scm command line: scm -f -y -t target -d packages [-B host] [-T tag]... sub meta.pkg
ScmStep(sub, meta_package_name, package_name, target_dir, packages_dir, hostname, tags) ==
    [kind |-> "scm", sub |-> sub, meta |-> meta_package_name, pkg |-> package_name,
     target_dir |-> target_dir, packages_dir |-> packages_dir,
     hostname |-> hostname, tags |-> tags]

\* Mutant of ScmInstallWith: the record is written as installed before scm
\* is run, and no midinstall is persisted.
ScmInstallWith_InstalledFirst(st, env, cache, meta_package_name, package_name, package_cache) ==
    LET done == Put(package_cache, "status", "installed")
        st1 == WriteCache(st, Put(cache, meta_package_name,
                                  Put(cache[meta_package_name], package_name, done)))
    IN IF {"target_dir", "packages_dir", "hostname", "tags"} \subseteq DOMAIN package_cache
       THEN Do(st1, ScmStep("install", meta_package_name, package_name,
                            package_cache.target_dir, package_cache.packages_dir,
                            package_cache.hostname, package_cache.tags))
       ELSE Raise(st1, "KeyError")

\* _invoke_scm_install, after the cache was read and the record built:
\* write midinstall, run scm, write installed.
ScmInstallWith(st, env, cache, meta_package_name, package_name, package_cache) ==
    LET mid == Put(cache, meta_package_name,
                   Put(cache[meta_package_name], package_name, package_cache))
        st1 == WriteCache(st, mid)
    IN IF {"target_dir", "packages_dir", "hostname", "tags"} \subseteq DOMAIN package_cache
       THEN LET st2 == Do(st1, ScmStep("install", meta_package_name, package_name,
                                      package_cache.target_dir, package_cache.packages_dir,
                                      package_cache.hostname, package_cache.tags))
                done == Put(Put(package_cache, "status", "installed"), "hostname",
                            IF env.hostname # None THEN env.hostname
                            ELSE package_cache.hostname)
            IN WriteCache(st2, Put(mid, meta_package_name,
                                   Put(mid[meta_package_name], package_name, done)))
       ELSE Raise(st1, "KeyError")

InvokeScmInstall(st, env, meta_package_name, package_name, target_dir, get_attributes_from_cache) ==
    IF st.raised # NoError THEN st
    ELSE
    LET cache == IF meta_package_name \in DOMAIN st.cache THEN st.cache
                 ELSE Put(st.cache, meta_package_name, EmptyMap)
    IN IF get_attributes_from_cache
       THEN IF package_name \notin DOMAIN cache[meta_package_name]
            THEN Raise(st, "KeyError")
            ELSE ScmInstallWith(st, env, cache, meta_package_name, package_name,
                     Put(cache[meta_package_name][package_name], "status", "midinstall"))
       ELSE IF package_name \in DOMAIN cache[meta_package_name]
            THEN Raise(st, "Impossible")
            ELSE ScmInstallWith(st, env, cache, meta_package_name, package_name,
                     [status |-> "midinstall",
                      package_dir |-> JoinedName(meta_package_name, package_name),
                      packages_dir |-> PackagesDir,
                      tags |-> env.tags,
                      hostname |-> env.hostname,
                      target_dir |-> target_dir])

\* _invoke_scm_remove
InvokeScmRemove(st, env, meta_package_name, package_name) ==
    IF st.raised # NoError THEN st
    ELSE IF \/ meta_package_name \notin DOMAIN st.cache
            \/ package_name \notin DOMAIN st.cache[meta_package_name]
         THEN Raise(st, "KeyError")
    ELSE
    LET cache == st.cache
        package_cache == cache[meta_package_name][package_name]
    IN IF ~ ({"package_dir", "target_dir", "tags"} \subseteq DOMAIN package_cache)
       THEN Raise(st, "KeyError")
       ELSE
       LET hostname == IF "hostname" \in DOMAIN package_cache
                       THEN package_cache.hostname ELSE None
           mid == Put(cache, meta_package_name,
                      Put(cache[meta_package_name], package_name,
                          Put(package_cache, "status", "midremove")))
           st1 == WriteCache(st, mid)
       IN \* scm_options += ['-B', self.hostname]: a None in argv is a TypeError
          IF hostname # None /\ env.hostname = None THEN Raise(st1, "TypeError")
          ELSE
          LET st2 == Do(st1, ScmStep("remove", meta_package_name, package_name,
                                     package_cache.target_dir, PackagesDir,
                                     IF hostname # None THEN env.hostname ELSE None,
                                     package_cache.tags))
          IN WriteCache(st2, Put(mid, meta_package_name,
                                 Put(mid[meta_package_name], package_name,
                                     [status |-> "loaded",
                                      package_dir |-> package_cache.package_dir])))

\* ------------------------------------------------------------------ install

\* Python's recursion limit, scaled down: a deeper recursion raises.
RecursionLimit == 3

\* Mutants of CheckNotInstalled.  The first lets a package marked midinstall
\* or midremove through as if it were not installed; the second, in mode
\* exit, leaves an installed package out instead of raising.
RECURSIVE CheckNotInstalled_NoMidCheck(_, _, _, _)
CheckNotInstalled_NoMidCheck(st, meta_package_name, raw_packages, if_installed) ==
    IF raw_packages = <<>> THEN [raised |-> NoError, packages |-> <<>>]
    ELSE
    LET package == Head(raw_packages)
        got == GetPackageCache(st, meta_package_name, package.name)
    IN IF got.raised # NoError THEN [raised |-> got.raised, packages |-> <<>>]
       ELSE IF got.rec.status = "installed" /\ if_installed = "exit"
            THEN [raised |-> "AlreadyInstalled", packages |-> <<>>]
       ELSE
       LET rest == CheckNotInstalled_NoMidCheck(st, meta_package_name, Tail(raw_packages),
                                                if_installed)
           included == \/ got.rec.status = "installed" /\ if_installed = "reinstall"
                       \/ got.rec.status # "installed" /\ if_installed # "reinstall"
       IN [raised |-> rest.raised,
           packages |-> IF rest.raised = NoError /\ included
                        THEN <<package>> \o rest.packages ELSE rest.packages]

RECURSIVE CheckNotInstalled_ExitSkips(_, _, _, _)
CheckNotInstalled_ExitSkips(st, meta_package_name, raw_packages, if_installed) ==
    IF raw_packages = <<>> THEN [raised |-> NoError, packages |-> <<>>]
    ELSE
    LET package == Head(raw_packages)
        got == GetPackageCache(st, meta_package_name, package.name)
    IN IF got.raised # NoError THEN [raised |-> got.raised, packages |-> <<>>]
       ELSE IF got.rec.status \in {"midinstall", "midremove"}
            THEN [raised |-> "Corrupted", packages |-> <<>>]
       ELSE
       LET rest == CheckNotInstalled_ExitSkips(st, meta_package_name, Tail(raw_packages),
                                               if_installed)
           included == \/ got.rec.status = "installed" /\ if_installed = "reinstall"
                       \/ got.rec.status \in {"notloaded", "loaded"} /\ if_installed # "reinstall"
       IN [raised |-> rest.raised,
           packages |-> IF rest.raised = NoError /\ included
                        THEN <<package>> \o rest.packages ELSE rest.packages]

\* Mutant of CheckNotInstalled: in mode skip an installed package is
\* included like one that is not installed.
RECURSIVE CheckNotInstalled_SkipIncludes(_, _, _, _)
CheckNotInstalled_SkipIncludes(st, meta_package_name, raw_packages, if_installed) ==
    IF raw_packages = <<>> THEN [raised |-> NoError, packages |-> <<>>]
    ELSE
    LET package == Head(raw_packages)
        got == GetPackageCache(st, meta_package_name, package.name)
    IN IF got.raised # NoError THEN [raised |-> got.raised, packages |-> <<>>]
       ELSE IF got.rec.status \in {"midinstall", "midremove"}
            THEN [raised |-> "Corrupted", packages |-> <<>>]
       ELSE IF got.rec.status = "installed" /\ if_installed = "exit"
            THEN [raised |-> "AlreadyInstalled", packages |-> <<>>]
       ELSE
       LET rest == CheckNotInstalled_SkipIncludes(st, meta_package_name, Tail(raw_packages),
                                                  if_installed)
           included == \/ got.rec.status = "installed" /\ if_installed \in {"reinstall", "skip"}
                       \/ got.rec.status \in {"notloaded", "loaded"} /\ if_installed # "reinstall"
       IN [raised |-> rest.raised,
           packages |-> IF rest.raised = NoError /\ included
                        THEN <<package>> \o rest.packages ELSE rest.packages]

\* install, lines 305-322: the status check of the matched packages.
\* [raised, packages]
RECURSIVE CheckNotInstalled(_, _, _, _)
CheckNotInstalled(st, meta_package_name, raw_packages, if_installed) ==
    IF raw_packages = <<>> THEN [raised |-> NoError, packages |-> <<>>]
    ELSE
    LET package == Head(raw_packages)
        got == GetPackageCache(st, meta_package_name, package.name)
    IN IF got.raised # NoError THEN [raised |-> got.raised, packages |-> <<>>]
       ELSE IF got.rec.status \in {"midinstall", "midremove"}
            THEN [raised |-> "Corrupted", packages |-> <<>>]
       ELSE IF got.rec.status = "installed" /\ if_installed = "exit"
            THEN [raised |-> "AlreadyInstalled", packages |-> <<>>]
       ELSE
       LET rest == CheckNotInstalled(st, meta_package_name, Tail(raw_packages), if_installed)
           included == \/ got.rec.status = "installed" /\ if_installed = "reinstall"
                       \/ got.rec.status \in {"notloaded", "loaded"} /\ if_installed # "reinstall"
       IN [raised |-> rest.raised,
           packages |-> IF rest.raised = NoError /\ included
                        THEN <<package>> \o rest.packages ELSE rest.packages]

\* install, lines 345-358: the target directory of a package.
\* [raised, target_dir]
RECURSIVE FirstExisting(_, _)
FirstExisting(target_dirs, existing) ==
    IF target_dirs = <<>> THEN [raised |-> "NoTarget", target_dir |-> None]
    ELSE IF Head(target_dirs) \in existing
         THEN [raised |-> NoError, target_dir |-> Head(target_dirs)]
    ELSE FirstExisting(Tail(target_dirs), existing)

TargetDir(env, package) ==
    IF "target" \notin DOMAIN package
    THEN [raised |-> NoError, target_dir |-> env.target_dir]
    ELSE FirstExisting(package.target, env.existing)

\* install, lines 364-416: run every declared mechanism the build supports.
\* acc = [st, loaded, possible]
RECURSIVE RunMechanisms(_, _, _, _)
RunMechanisms(acc, env, mechs, package_dir) ==
    IF mechs = <<>> \/ acc.st.raised # NoError THEN acc
    ELSE
    LET name == Head(mechs)
        supported == (name = "git" /\ env.git) \/ (name = "tar" /\ env.tar)
        known == name \in {"git", "tar"}
        next == IF supported
                THEN [st |-> Do(acc.st, [kind |-> "acquire", mech |-> name, dir |-> package_dir]),
                      loaded |-> TRUE, possible |-> acc.possible]
                ELSE IF known
                THEN [acc EXCEPT !.possible = Append(@, name)]
                ELSE acc
    IN RunMechanisms(next, env, Tail(mechs), package_dir)

\* Mutant of Acquire: an acquisition that ran no mechanism is not an error.
Acquire_NothingRunIsFine(st, env, meta_package_name, package) ==
    IF st.raised # NoError THEN st
    ELSE IF "mechs" \notin DOMAIN package THEN st
    ELSE RunMechanisms([st |-> st, loaded |-> FALSE, possible |-> <<>>], env,
                       package.mechs, JoinedName(meta_package_name, package.name)).st

Acquire(st, env, meta_package_name, package) ==
    IF st.raised # NoError THEN st
    ELSE IF "mechs" \notin DOMAIN package THEN Raise(st, "NoMechanisms")
    ELSE
    LET acc == RunMechanisms([st |-> st, loaded |-> FALSE, possible |-> <<>>], env,
                             package.mechs, JoinedName(meta_package_name, package.name))
    IN IF acc.st.raised # NoError THEN acc.st
       ELSE IF ~acc.loaded
            THEN Raise(acc.st, IF acc.possible = <<>> THEN "NoValidMechanism"
                               ELSE "UnsupportedMechanism")
       ELSE acc.st

\* Mutant of WriteLoaded: the load-only branch persists the status
\* notloaded.
WriteLoaded_NotLoaded(st, meta_package_name, package_name) ==
    IF st.raised # NoError THEN st
    ELSE
    LET cache == IF meta_package_name \in DOMAIN st.cache THEN st.cache
                 ELSE Put(st.cache, meta_package_name, EmptyMap)
    IN WriteCache(st, Put(cache, meta_package_name,
                          Put(cache[meta_package_name], package_name,
                              [status |-> "notloaded"])))

\* install, lines 427-442: the load-only branch
WriteLoaded(st, meta_package_name, package_name) ==
    IF st.raised # NoError THEN st
    ELSE
    LET cache == IF meta_package_name \in DOMAIN st.cache THEN st.cache
                 ELSE Put(st.cache, meta_package_name, EmptyMap)
    IN WriteCache(st, Put(cache, meta_package_name,
                          Put(cache[meta_package_name], package_name,
                              [status |-> "loaded"])))

\* Mutant of LoadPackage: load_only is ignored, the installer is run.
LoadPackage_IgnoresLoadOnly(st, env, meta_package_name, package, load_only, if_installed) ==
    IF st.raised # NoError THEN st
    ELSE
    LET got == GetPackageCache(st, meta_package_name, package.name)
        target == TargetDir(env, package)
    IN IF got.raised # NoError THEN Raise(st, got.raised)
       ELSE IF target.raised # NoError THEN Raise(st, target.raised)
       ELSE
       LET st1 == IF got.rec.status = "notloaded"
                  THEN Acquire(st, env, meta_package_name, package)
                  ELSE st
       IN InvokeScmInstall(st1, env, meta_package_name, package.name,
                           target.target_dir, if_installed = "reinstall")

\* install, lines 339-442: one turn of the loop 'Load the packages'
LoadPackage(st, env, meta_package_name, package, load_only, if_installed) ==
    IF st.raised # NoError THEN st
    ELSE
    LET got == GetPackageCache(st, meta_package_name, package.name)
        target == TargetDir(env, package)
    IN IF got.raised # NoError THEN Raise(st, got.raised)
       ELSE IF target.raised # NoError THEN Raise(st, target.raised)
       ELSE
       LET st1 == IF got.rec.status = "notloaded"
                  THEN Acquire(st, env, meta_package_name, package)
                  ELSE st
       IN IF load_only
          THEN WriteLoaded(st1, meta_package_name, package.name)
          ELSE InvokeScmInstall(st1, env, meta_package_name, package.name,
                                target.target_dir, if_installed = "reinstall")

RECURSIVE LoadPackages(_, _, _, _, _, _)
LoadPackages(st, env, meta_package_name, packages, load_only, if_installed) ==
    IF packages = <<>> \/ st.raised # NoError THEN st
    ELSE LoadPackages(LoadPackage(st, env, meta_package_name, Head(packages),
                                  load_only, if_installed),
                      env, meta_package_name, Tail(packages), load_only, if_installed)

RECURSIVE Install(_, _, _, _, _, _)
RECURSIVE ResolveDependencies(_, _, _, _, _)
RECURSIVE InstallSelection(_, _, _, _, _, _)

\* Mutant of ResolveDependencies: the dependencies are not installed.
ResolveDependencies_Skipped(st, env, packages, load_only, depth) == st

\* Mutant of ResolveDependencies: the dependencies are installed in mode
\* reinstall.
RECURSIVE ResolveDependencies_Reinstalls(_, _, _, _, _)
ResolveDependencies_Reinstalls(st, env, packages, load_only, depth) ==
    IF packages = <<>> \/ st.raised # NoError THEN st
    ELSE
    LET package == Head(packages)
        dep_package_list == IF "dependencies" \in DOMAIN package
                            THEN package.dependencies ELSE <<>>
    IN ResolveDependencies_Reinstalls(
           Install(st, env, dep_package_list, load_only, "reinstall", depth + 1),
           env, Tail(packages), load_only, depth)

\* Mutant of ResolveDependencies: the dependencies of a dependency are not
\* resolved.
RECURSIVE ResolveDependencies_OneLevel(_, _, _, _, _)
ResolveDependencies_OneLevel(st, env, packages, load_only, depth) ==
    IF packages = <<>> \/ st.raised # NoError \/ depth > 0 THEN st
    ELSE
    LET package == Head(packages)
        dep_package_list == IF "dependencies" \in DOMAIN package
                            THEN package.dependencies ELSE <<>>
    IN ResolveDependencies_OneLevel(
           Install(st, env, dep_package_list, load_only, "skip", depth + 1),
           env, Tail(packages), load_only, depth)

\* install, lines 324-336: 'Resolve package dependencies'
ResolveDependencies(st, env, packages, load_only, depth) ==
    IF packages = <<>> \/ st.raised # NoError THEN st
    ELSE
    LET package == Head(packages)
        dep_package_list == IF "dependencies" \in DOMAIN package
                            THEN package.dependencies ELSE <<>>
    IN ResolveDependencies(Install(st, env, dep_package_list, load_only, "skip", depth + 1),
                           env, Tail(packages), load_only, depth)

\* install, lines 295-442: the body of the loop over package_list
InstallSelection(st, env, selection, load_only, if_installed, depth) ==
    LET meta_package_name == selection[1]
        package_regex == selection[2]
        file_path == FindMetaPackageByName(st, env, meta_package_name)
    IN IF file_path = TomlError THEN Raise(st, TomlError)
       ELSE IF file_path = NoFile THEN Raise(st, "NotLoaded")
       ELSE
       LET meta_package == DocOf(st.store[file_path])
           raw_packages == SelectSeq(meta_package.packages,
                                     LAMBDA p : ReMatch(package_regex, p.name))
           checked == CheckNotInstalled(st, meta_package_name, raw_packages, if_installed)
       IN IF checked.raised # NoError THEN Raise(st, checked.raised)
          ELSE LoadPackages(
                   ResolveDependencies(st, env, checked.packages, load_only, depth),
                   env, meta_package_name, checked.packages, load_only, if_installed)

\* install(package_list, load_only, if_installed)
Install(st, env, package_list, load_only, if_installed, depth) ==
    IF st.raised # NoError THEN st
    ELSE IF depth > RecursionLimit THEN Raise(st, "RecursionError")
    ELSE IF package_list = <<>> THEN st
    ELSE Install(InstallSelection(st, env, Head(package_list), load_only, if_installed, depth),
                 env, Tail(package_list), load_only, if_installed, depth)

\* ------------------------------------------------------------------- remove

\* remove, lines 476-486: delete the content directory and the record
UnloadPackage(st, meta_package_name, package_name) ==
    IF st.raised # NoError THEN st
    ELSE IF \/ meta_package_name \notin DOMAIN st.cache
            \/ package_name \notin DOMAIN st.cache[meta_package_name]
            \/ "package_dir" \notin DOMAIN st.cache[meta_package_name][package_name]
         THEN Raise(st, "KeyError")
    ELSE
    LET cache == st.cache
        package_dir == cache[meta_package_name][package_name].package_dir
    IN IF package_dir \notin st.dirs THEN Raise(st, "FileNotFound")
       ELSE WriteCache(Do(st, [kind |-> "rmtree", dir |-> package_dir]),
                       Put(cache, meta_package_name,
                           Del(cache[meta_package_name], package_name)))

\* The name remove hands to _get_package_cache for a matched package
\* (line 460 passes package_regex).
RemoveStatusKey(package_regex, package_name) == package_regex

\* remove, lines 459-486: one turn of the loop over the matched packages
RECURSIVE RemovePackages(_, _, _, _, _, _, _)
RemovePackages(st, env, meta_package_name, package_regex, packages, uninstall_only, exit_if_not_installed) ==
    IF packages = <<>> \/ st.raised # NoError THEN st
    ELSE
    LET package_name == Head(packages).name
        got == GetPackageCache(st, meta_package_name,
                               RemoveStatusKey(package_regex, package_name))
        after ==
            IF got.raised # NoError THEN Raise(st, got.raised)
            ELSE IF got.rec.status \in {"midinstall", "midremove"}
                 THEN Raise(st, "Corrupted")
            ELSE IF got.rec.status \in {"notloaded", "loaded"}
                 THEN IF exit_if_not_installed THEN Raise(st, "NotInstalled") ELSE st
            ELSE
            LET st1 == InvokeScmRemove(st, env, meta_package_name, package_name)
            IN IF uninstall_only THEN st1
               ELSE UnloadPackage(st1, meta_package_name, package_name)
    IN RemovePackages(after, env, meta_package_name, package_regex, Tail(packages),
                      uninstall_only, exit_if_not_installed)

\* remove(package_list, uninstall_only, exit_if_not_installed)
RECURSIVE Remove(_, _, _, _, _)
Remove(st, env, package_list, uninstall_only, exit_if_not_installed) ==
    IF package_list = <<>> \/ st.raised # NoError THEN st
    ELSE
    LET meta_package_name == Head(package_list)[1]
        package_regex == Head(package_list)[2]
        file_path == FindMetaPackageByName(st, env, meta_package_name)
    IN IF file_path = TomlError THEN Raise(st, TomlError)
       ELSE IF file_path = NoFile THEN Raise(st, "NotLoaded")
       ELSE
       LET meta_package == DocOf(st.store[file_path])
           packages == SelectSeq(meta_package.packages,
                                 LAMBDA p : ReMatch(package_regex, p.name))
       IN Remove(RemovePackages(st, env, meta_package_name, package_regex, packages,
                                uninstall_only, exit_if_not_installed),
                 env, Tail(package_list), uninstall_only, exit_if_not_installed)

\* ------------------------------------------------------------ load / unload

\* os.remove(file_path)
RemoveFile(st, file_path) ==
    IF st.raised # NoError THEN st
    ELSE IF file_path = NoFile THEN Raise(st, "TypeError")
    ELSE Do(st, [kind |-> "remove_file", file |-> file_path])

\* Mutant of Load: the stored descriptor is removed before the new document
\* is validated.
RECURSIVE Load_RemovesFirst(_, _, _, _)
Load_RemovesFirst(st, env, uri_list, skip_if_loaded) ==
    IF uri_list = <<>> \/ st.raised # NoError THEN st
    ELSE
    LET uri == Head(uri_list)
        st1 == Do(st, [kind |-> "urlopen", uri |-> uri])
        doc == Served(uri)
        file_name == DocOf(doc).name
        file_path == FindMetaPackageByName(st1, env, file_name)
        after ==
            IF file_path = TomlError THEN Raise(st1, TomlError)
            ELSE IF file_path # NoFile /\ skip_if_loaded THEN st1
            ELSE LET st2 == RemoveFile(st1, file_path)
                 IN IF st2.raised # NoError THEN st2
                    ELSE IF ~DocOf(doc).valid THEN Raise(st2, "ValidationError")
                    ELSE Do(st2, [kind |-> "write_file", file |-> BaseName(uri), doc |-> doc])
    IN Load_RemovesFirst(after, env, Tail(uri_list), skip_if_loaded)

\* load(uri_list, skip_if_loaded)
RECURSIVE Load(_, _, _, _)
Load(st, env, uri_list, skip_if_loaded) ==
    IF uri_list = <<>> \/ st.raised # NoError THEN st
    ELSE
    LET uri == Head(uri_list)
        st1 == Do(st, [kind |-> "urlopen", uri |-> uri])
        doc == Served(uri)
        file_name == DocOf(doc).name
        file_path == FindMetaPackageByName(st1, env, file_name)
        after ==
            IF file_path = TomlError THEN Raise(st1, TomlError)
            ELSE IF file_path # NoFile /\ skip_if_loaded THEN st1
            ELSE IF ~DocOf(doc).valid THEN Raise(st1, "ValidationError")
            ELSE Do(RemoveFile(st1, file_path),
                    [kind |-> "write_file", file |-> BaseName(uri), doc |-> doc])
    IN Load(after, env, Tail(uri_list), skip_if_loaded)

\* unload(name_list)
RECURSIVE Unload(_, _, _)
Unload(st, env, name_list) ==
    IF name_list = <<>> \/ st.raised # NoError THEN st
    ELSE
    LET name == Head(name_list)
        file_path == FindMetaPackageByName(st, env, name)
        after == IF file_path = TomlError THEN Raise(st, TomlError)
                 ELSE IF file_path = NoFile THEN st
                 ELSE RemoveFile(Remove(st, env, << <<name, PatAll>> >>, FALSE, FALSE),
                                 file_path)
    IN Unload(after, env, Tail(name_list))

\* ------------------------------------------------------ list_packages, update

\* list_packages(pretty_print=False): [raised, names]; names are the keys of
\* the returned mapping, in listing order.
RECURSIVE ListStatuses(_, _, _)
ListStatuses(st, meta_package_name, packages) ==
    IF packages = <<>> THEN NoError
    ELSE LET got == GetPackageCache(st, meta_package_name, Head(packages).name)
         IN IF got.raised # NoError THEN got.raised
            ELSE ListStatuses(st, meta_package_name, Tail(packages))

RECURSIVE ListFiles(_, _, _)
ListFiles(st, order, names) ==
    IF order = <<>> THEN [raised |-> NoError, names |-> names]
    ELSE IF Head(order) \notin DOMAIN st.store \/ st.store[Head(order)] = Junk
         THEN ListFiles(st, Tail(order), names)
    ELSE
    LET meta_package == DocOf(st.store[Head(order)])
        raised == IF meta_package.name \in SeqRange(names) THEN "AssertionError"
                  ELSE ListStatuses(st, meta_package.name, meta_package.packages)
    IN IF raised # NoError THEN [raised |-> raised, names |-> names]
       ELSE ListFiles(st, Tail(order), Append(names, meta_package.name))

ListPackages(st, env) == ListFiles(st, env.order, <<>>)

\* The package component of an update selection that has none
NoRegex == <<None>>

\* update.update_meta_package
UpdateMetaPackage(st, env, meta_package_name) ==
    IF st.raised # NoError THEN st
    ELSE LET file_path == FindMetaPackageByName(st, env, meta_package_name)
         IN IF file_path = TomlError THEN Raise(st, TomlError)
            ELSE IF file_path = NoFile THEN Raise(st, "TypeError")
            ELSE Load(st, env, <<DocOf(st.store[file_path]).uri>>, FALSE)

RECURSIVE UpdateAll(_, _, _)
UpdateAll(st, env, names) ==
    IF names = <<>> \/ st.raised # NoError THEN st
    ELSE UpdateAll(Install(UpdateMetaPackage(st, env, Head(names)), env,
                           << <<Head(names), PatAll>> >>, FALSE, "reinstall", 0),
                   env, Tail(names))

RECURSIVE UpdateSelections(_, _, _)
UpdateSelections(st, env, package_list) ==
    IF package_list = <<>> \/ st.raised # NoError THEN st
    ELSE
    LET meta_package_name == Head(package_list)[1]
        package_regex == Head(package_list)[2]
        after == IF package_regex = NoRegex
                 THEN UpdateMetaPackage(st, env, meta_package_name)
                 ELSE Install(st, env, << <<meta_package_name, PatAll>> >>,
                              FALSE, "reinstall", 0)
    IN UpdateSelections(after, env, Tail(package_list))

\* update(package_list)
Update(st, env, package_list) ==
    LET packages == ListPackages(st, env)
    IN IF packages.raised # NoError THEN Raise(st, packages.raised)
       ELSE IF Len(package_list) = 0 THEN UpdateAll(st, env, packages.names)
       ELSE UpdateSelections(st, env, package_list)

\* ------------------------------------------------------------ state machine

VARIABLES
    store,      \* the package-configs directory: file name -> stored document
    dirs,       \* the content directories that exist in the packages directory
    cache,      \* the cache file: meta-package -> package -> record
    call,       \* the method running (or the last one run) and its arguments
    pre,        \* the disk when that method was called
    pending,    \* the steps the running method has still to take
    trace,      \* the steps it has taken
    final,      \* what the method raises after its last step, if nothing fails
    result,     \* "idle", "running", "ok" or the exception raised
    instances   \* the engine processes that run side by side on the same
                \* data directory (none where one method is run at a time)

vars == <<store, dirs, cache, call, pre, pending, trace, final, result, instances>>

\* One method is run at a time
NoInstances == <<>>

Disk == [store |-> store, dirs |-> dirs, cache |-> cache]

Entry == [store |-> store, dirs |-> dirs, cache |-> cache,
          steps |-> <<>>, raised |-> NoError]

Outcome(raised) == IF raised = NoError THEN "ok" ELSE raised

\* Bounds of the calls explored
MaxSel == 1

\* The (meta-package, pattern) pairs the calls are made with: an exact
\* name that is also a prefix of another name, an exact name, an anchored
\* name and '.*'.
Selections ==
    { <<"M", PkgA>>, <<"M", PkgAB>>, <<"M", PatAnchoredA>>, <<"M", PatAll>>,
      <<"N", PatAll>> }

ListsOver(S) == UNION {[1..n -> S] : n \in 1..MaxSel}

Modes == {"exit", "skip", "reinstall"}

\* The descriptor files found in the package-configs directory at start-up
\* (the constructor keeps what is there); cache.json is created empty and
\* nothing has been acquired.
InitialStores ==
    { [f \in {"m.toml"} |-> "docM"],
      [f \in {"m.toml", "n.toml"} |-> IF f = "m.toml" THEN "docM" ELSE "docN"] }

Init ==
    /\ store \in InitialStores
    /\ dirs = {}
    /\ cache = EmptyMap
    /\ call = [op |-> "none"]
    /\ pre = Disk
    /\ pending = <<>>
    /\ trace = <<>>
    /\ final = NoError
    /\ result = "idle"
    /\ instances = NoInstances

\* A method is called: it runs up to its first externally visible step.
Start(c, run) ==
    /\ result = "idle"
    /\ call' = c
    /\ pre' = Disk
    /\ pending' = run.steps
    /\ trace' = <<>>
    /\ final' = run.raised
    /\ result' = IF run.steps = <<>> THEN Outcome(run.raised) ELSE "running"
    /\ UNCHANGED <<store, dirs, cache, instances>>

CallInstall ==
    \E env \in Envs, package_list \in ListsOver(Selections),
       load_only \in BOOLEAN, if_installed \in Modes :
        Start([op |-> "install", package_list |-> package_list, load_only |-> load_only,
               if_installed |-> if_installed, env |-> env],
              Install(Entry, env, package_list, load_only, if_installed, 0))

CallRemove ==
    \E env \in Envs, package_list \in ListsOver(Selections),
       uninstall_only \in BOOLEAN, exit_if_not_installed \in BOOLEAN :
        Start([op |-> "remove", package_list |-> package_list,
               uninstall_only |-> uninstall_only,
               exit_if_not_installed |-> exit_if_not_installed, env |-> env],
              Remove(Entry, env, package_list, uninstall_only, exit_if_not_installed))

CallLoad ==
    \E env \in Envs, uri_list \in ListsOver(Uris), skip_if_loaded \in BOOLEAN :
        Start([op |-> "load", uri_list |-> uri_list, skip_if_loaded |-> skip_if_loaded,
               env |-> env],
              Load(Entry, env, uri_list, skip_if_loaded))

CallUnload ==
    \E env \in Envs, name_list \in ListsOver(MetaNames) :
        Start([op |-> "unload", name_list |-> name_list, env |-> env],
              Unload(Entry, env, name_list))

\* The arguments META_PACKAGE[.PACKAGE] of the update command: a bare
\* meta-package name, or a name, a dot and a pattern.
UpdateArgs ==
    {<<name>> \o rest :
        name \in MetaNames,
        rest \in {<<>>, <<".">> \o PatAll, <<".">> \o PkgA, <<".">> \o PkgAB}}

\* Mutant of UpdateTupleise: an argument without a dot is given the
\* pattern '.*'.
UpdateTupleise_AsPattern(arg) ==
    LET dots == {i \in 1..Len(arg) : arg[i] = "."}
        first == CHOOSE i \in dots : \A j \in dots : i <= j
    IN IF dots = {} THEN <<arg, PatAll>>
       ELSE <<SubSeq(arg, 1, first - 1), SubSeq(arg, first + 1, Len(arg))>>

\* main._update_tupleise: arg.split('.', 1), with None appended when there
\* is no dot.
UpdateTupleise(arg) ==
    LET dots == {i \in 1..Len(arg) : arg[i] = "."}
        first == CHOOSE i \in dots : \A j \in dots : i <= j
    IN IF dots = {} THEN <<arg, NoRegex>>
       ELSE <<SubSeq(arg, 1, first - 1), SubSeq(arg, first + 1, Len(arg))>>

\* The meta-package names of the fixtures are one character long.
UpdatePackageList(args) ==
    [k \in 1..Len(args) |->
        <<UpdateTupleise(args[k])[1][1], UpdateTupleise(args[k])[2]>>]

CallUpdate ==
    \E env \in Envs, args \in {<<>>} \cup ListsOver(UpdateArgs) :
        Start([op |-> "update", args |-> args,
               package_list |-> UpdatePackageList(args), env |-> env],
              Update(Entry, env, UpdatePackageList(args)))

CallListPackages ==
    \E env \in Envs :
        Start([op |-> "list_packages", env |-> env],
              Raise(Entry, ListPackages(Entry, env).raised))

\* The running method takes its next step and goes on.
Advance ==
    /\ pending' = Tail(pending)
    /\ trace' = Append(trace, Head(pending))
    /\ result' = IF Tail(pending) = <<>> THEN Outcome(final) ELSE "running"
    /\ UNCHANGED <<call, pre, final, instances>>

\* An external call fails at its step: the exception ends the method.
Abort(e) ==
    /\ pending' = <<>>
    /\ trace' = Append(trace, Head(pending))
    /\ result' = e
    /\ UNCHANGED <<call, pre, final, instances>>

AtStep(kind) == result = "running" /\ Head(pending).kind = kind

StepWriteCache ==
    /\ AtStep("write_cache")
    /\ cache' = Head(pending).cache
    /\ UNCHANGED <<store, dirs>>
    /\ Advance

\* subprocess.run(scm_options) returns 0
StepScmOk ==
    /\ AtStep("scm")
    /\ UNCHANGED <<store, dirs, cache>>
    /\ Advance

\* Mutant of StepScmFails: the failure restores the cache file the method
\* found when it was called.
StepScmFails_RollsBack ==
    /\ AtStep("scm")
    /\ cache' = pre.cache
    /\ UNCHANGED <<store, dirs>>
    /\ Abort("ScmFailed")

\* subprocess.run(scm_options) returns a non-zero code
StepScmFails ==
    /\ AtStep("scm")
    /\ UNCHANGED <<store, dirs, cache>>
    /\ Abort("ScmFailed")

\* the archive is extracted (the repository cloned) into package_dir
StepAcquireOk ==
    /\ AtStep("acquire")
    /\ dirs' = dirs \cup {Head(pending).dir}
    /\ UNCHANGED <<store, cache>>
    /\ Advance

\* Mutant of StepAcquireFails: the failure restores the cache file and the
\* content directories the method found when it was called.
StepAcquireFails_RollsBack ==
    /\ AtStep("acquire")
    /\ dirs' = pre.dirs
    /\ cache' = pre.cache
    /\ UNCHANGED store
    /\ Abort("AcquireFailed")

\* the fetch or the extraction fails; the directory may have been created
StepAcquireFails ==
    /\ AtStep("acquire")
    /\ \E made \in BOOLEAN :
          dirs' = IF made THEN dirs \cup {Head(pending).dir} ELSE dirs
    /\ UNCHANGED <<store, cache>>
    /\ Abort("AcquireFailed")

StepRmtree ==
    /\ AtStep("rmtree")
    /\ dirs' = dirs \ {Head(pending).dir}
    /\ UNCHANGED <<store, cache>>
    /\ Advance

StepUrlopenOk ==
    /\ AtStep("urlopen")
    /\ UNCHANGED <<store, dirs, cache>>
    /\ Advance

StepUrlopenFails ==
    /\ AtStep("urlopen")
    /\ UNCHANGED <<store, dirs, cache>>
    /\ Abort("UrlopenFailed")

StepRemoveFile ==
    /\ AtStep("remove_file")
    /\ store' = Del(store, Head(pending).file)
    /\ UNCHANGED <<dirs, cache>>
    /\ Advance

StepWriteFile ==
    /\ AtStep("write_file")
    /\ store' = Put(store, Head(pending).file, Head(pending).doc)
    /\ UNCHANGED <<dirs, cache>>
    /\ Advance

\* The method has returned or raised: the process exits.
Exit ==
    /\ result \notin {"idle", "running"}
    /\ call' = [op |-> "none"]
    /\ pre' = Disk
    /\ pending' = <<>>
    /\ trace' = <<>>
    /\ final' = NoError
    /\ result' = "idle"
    /\ UNCHANGED <<store, dirs, cache, instances>>

Next ==
    \/ CallInstall
    \/ CallRemove
    \/ CallLoad
    \/ CallUnload
    \/ CallUpdate
    \/ CallListPackages
    \/ StepWriteCache
    \/ StepScmOk
    \/ StepScmFails
    \/ StepAcquireOk
    \/ StepAcquireFails
    \/ StepRmtree
    \/ StepUrlopenOk
    \/ StepUrlopenFails
    \/ StepRemoveFile
    \/ StepWriteFile
    \/ Exit

Spec == Init /\ [][Next]_vars

\* -------------------------------------------------- replacing a descriptor
\* Loads and updates of descriptor M, whose stored file is either the valid
\* document or a revision that fails the schema (the constructor keeps the
\* files it finds and install, remove and update read them unvalidated).
ReplaceEnvs ==
    { [target_dir |-> "home", hostname |-> None, tags |-> <<>>,
       git |-> FALSE, tar |-> TRUE, existing |-> {"home"},
       order |-> <<"m.toml", "x.toml">>] }

ReplaceUris == {UriM, UriX, UriN}

ReplaceUriLists == {<<u>> : u \in ReplaceUris} \cup {<<u, v>> : u \in ReplaceUris, v \in ReplaceUris}

InitReplace ==
    /\ store \in { [f \in {"m.toml"} |-> "docM"], [f \in {"x.toml"} |-> "docX"] }
    /\ dirs = {}
    /\ cache = EmptyMap
    /\ call = [op |-> "none"]
    /\ pre = Disk
    /\ pending = <<>>
    /\ trace = <<>>
    /\ final = NoError
    /\ result = "idle"
    /\ instances = NoInstances

CallLoadReplace ==
    \E env \in ReplaceEnvs, uri_list \in ReplaceUriLists, skip_if_loaded \in BOOLEAN :
        Start([op |-> "load", uri_list |-> uri_list, skip_if_loaded |-> skip_if_loaded,
               env |-> env],
              Load(Entry, env, uri_list, skip_if_loaded))

\* mcm update M
CallUpdateReplace ==
    \E env \in ReplaceEnvs :
        Start([op |-> "update", args |-> << <<"M">> >>,
               package_list |-> UpdatePackageList(<< <<"M">> >>), env |-> env],
              Update(Entry, env, UpdatePackageList(<< <<"M">> >>)))

NextReplace ==
    \/ CallLoadReplace
    \/ CallUpdateReplace
    \/ StepUrlopenOk
    \/ StepUrlopenFails
    \/ StepRemoveFile
    \/ StepWriteFile
    \/ Exit

SpecReplace == InitReplace /\ [][NextReplace]_vars

\* --------------------------------------------------------- junk documents
\* Calls made with a file that does not parse beside the stored descriptor
\* M, listed before or after it (os.listdir gives no order).
JunkEnvs ==
    { [target_dir |-> "home", hostname |-> None, tags |-> <<>>,
       git |-> FALSE, tar |-> TRUE, existing |-> {"home"}, order |-> order] :
      order \in { <<"j.toml", "m.toml">>, <<"m.toml", "j.toml">> } }

SelectionsJunk == { <<"M", PkgAB>>, <<"N", PatAll>> }

InitJunk ==
    /\ store = [f \in {"j.toml", "m.toml"} |-> IF f = "j.toml" THEN Junk ELSE "docM"]
    /\ dirs = {}
    /\ cache = EmptyMap
    /\ call = [op |-> "none"]
    /\ pre = Disk
    /\ pending = <<>>
    /\ trace = <<>>
    /\ final = NoError
    /\ result = "idle"
    /\ instances = NoInstances

CallInstallJunk ==
    \E env \in JunkEnvs, selection \in SelectionsJunk, load_only \in BOOLEAN :
        Start([op |-> "install", package_list |-> <<selection>>, load_only |-> load_only,
               if_installed |-> "exit", env |-> env],
              Install(Entry, env, <<selection>>, load_only, "exit", 0))

CallRemoveJunk ==
    \E env \in JunkEnvs, selection \in SelectionsJunk :
        Start([op |-> "remove", package_list |-> <<selection>>, uninstall_only |-> FALSE,
               exit_if_not_installed |-> TRUE, env |-> env],
              Remove(Entry, env, <<selection>>, FALSE, TRUE))

CallLoadJunk ==
    \E env \in JunkEnvs, uri \in {UriM, UriN} :
        Start([op |-> "load", uri_list |-> <<uri>>, skip_if_loaded |-> TRUE, env |-> env],
              Load(Entry, env, <<uri>>, TRUE))

CallUnloadJunk ==
    \E env \in JunkEnvs, name \in MetaNames :
        Start([op |-> "unload", name_list |-> <<name>>, env |-> env],
              Unload(Entry, env, <<name>>))

NextJunk ==
    \/ CallInstallJunk
    \/ CallRemoveJunk
    \/ CallLoadJunk
    \/ CallUnloadJunk
    \/ StepWriteCache
    \/ StepScmOk
    \/ StepScmFails
    \/ StepAcquireOk
    \/ StepAcquireFails
    \/ StepRmtree
    \/ StepUrlopenOk
    \/ StepUrlopenFails
    \/ StepRemoveFile
    \/ Exit

SpecJunk == InitJunk /\ [][NextJunk]_vars

\* ------------------------------------------------------ concurrent installs
\* Two mcm processes run `install META.PACKAGE` on the same data directory.
\* Each reads and writes the files in the order of its code; the steps of
\* the two interleave freely.  instances[i] = [pc, selection, pending,
\* snapshot]: where process i is, what it installs, the steps it has still
\* to take before its next read of the cache file, and the mapping it read
\* in _invoke_scm_install.
Processes == {1, 2}

ConcurrentEnv == CHOOSE env \in Envs : TRUE

\* Selections that match one package each
ConcurrentSelections == { <<"M", PkgAB>>, <<"M", PatAnchoredA>> }

NotStarted == [pc |-> "idle", selection |-> <<>>, pending |-> <<>>, snapshot |-> EmptyMap]

\* install, lines 296-303: the packages of the stored descriptor that the
\* selection matches
MatchedPackages(selection) ==
    SelectSeq(DocOf(store[FindInOrder(store, ConcurrentEnv.order, selection[1])]).packages,
              LAMBDA p : ReMatch(selection[2], p.name))

\* The package process i installs
OwnPackage(i) == MatchedPackages(instances[i].selection)[1]

InitConcurrent ==
    /\ store = [f \in {"m.toml"} |-> "docM"]
    /\ dirs = {}
    /\ cache = EmptyMap
    /\ call = [op |-> "none"]
    /\ pre = Disk
    /\ pending = <<>>
    /\ trace = <<>>
    /\ final = NoError
    /\ result = "idle"
    /\ instances = [i \in Processes |-> NotStarted]

Sequential == <<call, pre, pending, trace, final, result>>

\* install, lines 293-416, for a selection of one package without
\* dependencies: the status check, then the acquisition when the package is
\* not loaded.
InstanceCall(i) ==
    /\ instances[i].pc = "idle"
    /\ \E selection \in ConcurrentSelections :
          LET packages == MatchedPackages(selection)
              checked == CheckNotInstalled(Entry, selection[1], packages, "exit")
              package == checked.packages[1]
              target == TargetDir(ConcurrentEnv, package)
              run == IF GetPackageCache(Entry, selection[1], package.name).rec.status
                        = "notloaded"
                     THEN Acquire(Entry, ConcurrentEnv, selection[1], package)
                     ELSE Entry
          IN instances' = [instances EXCEPT ![i] =
                IF checked.raised # NoError
                THEN [NotStarted EXCEPT !.pc = checked.raised, !.selection = selection]
                ELSE IF target.raised # NoError
                THEN [NotStarted EXCEPT !.pc = target.raised, !.selection = selection]
                ELSE IF run.raised # NoError
                THEN [NotStarted EXCEPT !.pc = run.raised, !.selection = selection]
                ELSE [NotStarted EXCEPT !.pc = "loading", !.selection = selection,
                                        !.pending = run.steps]]
    /\ UNCHANGED <<store, dirs, cache>>
    /\ UNCHANGED Sequential

InstanceAt(i, pc, kind) ==
    /\ instances[i].pc = pc
    /\ instances[i].pending # <<>>
    /\ Head(instances[i].pending).kind = kind

InstanceAcquireOk(i) ==
    /\ InstanceAt(i, "loading", "acquire")
    /\ dirs' = dirs \cup {Head(instances[i].pending).dir}
    /\ instances' = [instances EXCEPT ![i].pending = Tail(@)]
    /\ UNCHANGED <<store, cache>>
    /\ UNCHANGED Sequential

InstanceAcquireFails(i) ==
    /\ InstanceAt(i, "loading", "acquire")
    /\ \E made \in BOOLEAN :
          dirs' = IF made THEN dirs \cup {Head(instances[i].pending).dir} ELSE dirs
    /\ instances' = [instances EXCEPT ![i].pending = <<>>, ![i].pc = "AcquireFailed"]
    /\ UNCHANGED <<store, cache>>
    /\ UNCHANGED Sequential

\* _invoke_scm_install, lines 121-152: the cache file is read and the
\* record and the two mappings to write are built from what was read.
InstanceRead(i) ==
    /\ instances[i].pc = "loading"
    /\ instances[i].pending = <<>>
    /\ LET selection == instances[i].selection
           package == OwnPackage(i)
           run == InvokeScmInstall(Entry, ConcurrentEnv, selection[1], package.name,
                                   TargetDir(ConcurrentEnv, package).target_dir, FALSE)
       IN instances' = [instances EXCEPT ![i] =
             IF run.steps = <<>>
             THEN [@ EXCEPT !.pc = run.raised, !.snapshot = cache]
             ELSE [@ EXCEPT !.pc = "installing", !.pending = run.steps,
                            !.snapshot = cache]]
    /\ UNCHANGED <<store, dirs, cache>>
    /\ UNCHANGED Sequential

\* The process has taken its last step: install returns.
AfterStep(i) ==
    instances' = [instances EXCEPT
                     ![i].pending = Tail(@),
                     ![i].pc = IF Tail(instances[i].pending) = <<>> THEN "ok" ELSE @]

\* The write that puts only the record of the process's own package into
\* the cache file as it is at the write.
InstanceWrite_Merges(i) ==
    /\ InstanceAt(i, "installing", "write_cache")
    /\ LET m == instances[i].selection[1]
           n == OwnPackage(i).name
           now == IF m \in DOMAIN cache THEN cache ELSE Put(cache, m, EmptyMap)
       IN cache' = Put(now, m, Put(now[m], n, Head(instances[i].pending).cache[m][n]))
    /\ AfterStep(i)
    /\ UNCHANGED <<store, dirs>>
    /\ UNCHANGED Sequential

\* json.dump(cache, f), lines 155-157 and 188-189: the whole mapping, as
\* read at line 122 and changed in memory, replaces the cache file.
InstanceWrite(i) ==
    /\ InstanceAt(i, "installing", "write_cache")
    /\ cache' = Head(instances[i].pending).cache
    /\ AfterStep(i)
    /\ UNCHANGED <<store, dirs>>
    /\ UNCHANGED Sequential

InstanceScmOk(i) ==
    /\ InstanceAt(i, "installing", "scm")
    /\ AfterStep(i)
    /\ UNCHANGED <<store, dirs, cache>>
    /\ UNCHANGED Sequential

InstanceScmFails(i) ==
    /\ InstanceAt(i, "installing", "scm")
    /\ instances' = [instances EXCEPT ![i].pending = <<>>, ![i].pc = "ScmFailed"]
    /\ UNCHANGED <<store, dirs, cache>>
    /\ UNCHANGED Sequential

NextConcurrent ==
    \E i \in Processes :
       \/ InstanceCall(i)
       \/ InstanceAcquireOk(i)
       \/ InstanceAcquireFails(i)
       \/ InstanceRead(i)
       \/ InstanceWrite(i)
       \/ InstanceScmOk(i)
       \/ InstanceScmFails(i)

SpecConcurrent == InitConcurrent /\ [][NextConcurrent]_vars

\* ------------------------------------------------- cyclic dependencies
\* Installs of the packages of the descriptors C and D.
CycleEnvs ==
    { [target_dir |-> "home", hostname |-> None, tags |-> <<>>,
       git |-> FALSE, tar |-> TRUE, existing |-> {"home"},
       order |-> <<"c.toml", "d.toml">>] }

SelectionsC ==
    { <<"C", PkgX>>, <<"C", PkgY>>, <<"C", PkgZ>>, <<"C", PkgW>>, <<"C", PatAll>>,
      <<"D", PkgP2>>, <<"D", PatAll>> }

InitCycle ==
    /\ store = [f \in {"c.toml", "d.toml"} |-> IF f = "c.toml" THEN "docC" ELSE "docD"]
    /\ dirs = {}
    /\ cache = EmptyMap
    /\ call = [op |-> "none"]
    /\ pre = Disk
    /\ pending = <<>>
    /\ trace = <<>>
    /\ final = NoError
    /\ result = "idle"
    /\ instances = NoInstances

CallInstallCycle ==
    \E env \in CycleEnvs, selection \in SelectionsC, load_only \in BOOLEAN,
       if_installed \in Modes :
        Start([op |-> "install", package_list |-> <<selection>>, load_only |-> load_only,
               if_installed |-> if_installed, env |-> env],
              Install(Entry, env, <<selection>>, load_only, if_installed, 0))

NextCycle ==
    \/ CallInstallCycle
    \/ StepWriteCache
    \/ StepScmOk
    \/ StepScmFails
    \/ StepAcquireOk
    \/ StepAcquireFails
    \/ Exit

SpecCycle == InitCycle /\ [][NextCycle]_vars

\* ------------------------------------------------- engine configurations
\* Installs, reinstalls and removes of M.ab by engines started with
\* different --hostname, --tag and --target-dir options.
HostEnvs ==
    { [target_dir |-> target_dir, hostname |-> hostname, tags |-> tags,
       git |-> FALSE, tar |-> TRUE, existing |-> {"home", "opt"},
       order |-> <<"m.toml", "n.toml">>] :
      target_dir \in {"home", "opt"}, hostname \in {None, "h1", "h2"},
      tags \in {<<>>, <<"t1">>} }

InitHost ==
    /\ store = [f \in {"m.toml"} |-> "docM"]
    /\ dirs = {}
    /\ cache = EmptyMap
    /\ call = [op |-> "none"]
    /\ pre = Disk
    /\ pending = <<>>
    /\ trace = <<>>
    /\ final = NoError
    /\ result = "idle"
    /\ instances = NoInstances

CallInstallHost ==
    \E env \in HostEnvs, if_installed \in Modes :
        Start([op |-> "install", package_list |-> << <<"M", PkgAB>> >>, load_only |-> FALSE,
               if_installed |-> if_installed, env |-> env],
              Install(Entry, env, << <<"M", PkgAB>> >>, FALSE, if_installed, 0))

CallRemoveHost ==
    \E env \in HostEnvs, uninstall_only \in BOOLEAN :
        Start([op |-> "remove", package_list |-> << <<"M", PkgAB>> >>,
               uninstall_only |-> uninstall_only, exit_if_not_installed |-> TRUE,
               env |-> env],
              Remove(Entry, env, << <<"M", PkgAB>> >>, uninstall_only, TRUE))

NextHost ==
    \/ CallInstallHost
    \/ CallRemoveHost
    \/ StepWriteCache
    \/ StepScmOk
    \/ StepScmFails
    \/ StepAcquireOk
    \/ StepAcquireFails
    \/ StepRmtree
    \/ Exit

SpecHost == InitHost /\ [][NextHost]_vars

\* --------------------------------------------------- shared base names
\* Loads, updates and unloads with M and N stored, where the URI that M's
\* stored descriptor names may have the file base name of N's.
SharedUris == {UriM, UriN, UriO}

InitShared ==
    /\ store \in { [f \in {"m.toml", "n.toml"} |->
                       IF f = "n.toml" THEN "docN" ELSE doc] : doc \in {"docM", "docO"} }
    /\ dirs = {}
    /\ cache = EmptyMap
    /\ call = [op |-> "none"]
    /\ pre = Disk
    /\ pending = <<>>
    /\ trace = <<>>
    /\ final = NoError
    /\ result = "idle"
    /\ instances = NoInstances

CallLoadShared ==
    \E env \in Envs, uri \in SharedUris, skip_if_loaded \in BOOLEAN :
        Start([op |-> "load", uri_list |-> <<uri>>, skip_if_loaded |-> skip_if_loaded,
               env |-> env],
              Load(Entry, env, <<uri>>, skip_if_loaded))

\* mcm update M, mcm update N
CallUpdateShared ==
    \E env \in Envs, name \in MetaNames :
        Start([op |-> "update", args |-> << <<name>> >>,
               package_list |-> UpdatePackageList(<< <<name>> >>), env |-> env],
              Update(Entry, env, UpdatePackageList(<< <<name>> >>)))

CallUnloadShared ==
    \E env \in Envs, name \in MetaNames :
        Start([op |-> "unload", name_list |-> <<name>>, env |-> env],
              Unload(Entry, env, <<name>>))

NextShared ==
    \/ CallLoadShared
    \/ CallUpdateShared
    \/ CallUnloadShared
    \/ StepUrlopenOk
    \/ StepUrlopenFails
    \/ StepRemoveFile
    \/ StepWriteFile
    \/ Exit

SpecShared == InitShared /\ [][NextShared]_vars

\* ------------------------------------------------- acquisition and target
\* Installs of the packages of descriptor P, one selection a call as the
\* command line makes them (if_installed is left at its default), on every
\* build.
SelectionsP ==
    { <<"P", PkgT>>, <<"P", PkgS>>, <<"P", PkgN>>, <<"P", PkgE>>, <<"P", PatAll>> }

InitAcquire ==
    /\ store = [f \in {"p.toml"} |-> "docP"]
    /\ dirs = {}
    /\ cache = EmptyMap
    /\ call = [op |-> "none"]
    /\ pre = Disk
    /\ pending = <<>>
    /\ trace = <<>>
    /\ final = NoError
    /\ result = "idle"
    /\ instances = NoInstances

CallInstallAcquire ==
    \E env \in BuildEnvs, selection \in SelectionsP, load_only \in BOOLEAN :
        Start([op |-> "install", package_list |-> <<selection>>, load_only |-> load_only,
               if_installed |-> "exit", env |-> env],
              Install(Entry, env, <<selection>>, load_only, "exit", 0))

NextAcquire ==
    \/ CallInstallAcquire
    \/ StepWriteCache
    \/ StepScmOk
    \/ StepScmFails
    \/ StepAcquireOk
    \/ StepAcquireFails
    \/ Exit

SpecAcquire == InitAcquire /\ [][NextAcquire]_vars


\* --------------------------------------------------- vocabulary of the claims

PackageNames == {PkgA, PkgAB, PkgB}

AllPackages == MetaNames \X PackageNames

Last(s) == s[Len(s)]

\* The status persisted for a package in a cache mapping (no record: notloaded)
StatusIn(c, meta_package_name, package_name) ==
    IF meta_package_name \in DOMAIN c /\ package_name \in DOMAIN c[meta_package_name]
    THEN c[meta_package_name][package_name].status
    ELSE "notloaded"

\* The cache file after the first i steps of the running method
CacheAt(i) ==
    LET W == {j \in 1..i : trace[j].kind = "write_cache"}
    IN IF W = {} THEN pre.cache
       ELSE trace[CHOOSE j \in W : \A k \in W : k <= j].cache

Mid(sub) == IF sub = "install" THEN "midinstall" ELSE "midremove"

Finished == result \notin {"idle", "running"}

\* The exceptions that report a corrupted cache: an in-progress status seen
\* at the status check, or a record _get_package_cache rejects.
CorruptionErrors == {"Corrupted", "CacheTampered"}

\* The packages a selection matches in the descriptor stored on a disk, in
\* declaration order (<<>> when the meta-package is not loaded).
Matched(disk, env, selection) ==
    LET file_path == FindInOrder(disk.store, env.order, selection[1])
    IN IF file_path = NoFile THEN <<>>
       ELSE SelectSeq(DocOf(disk.store[file_path]).packages,
                      LAMBDA p : ReMatch(selection[2], p.name))

\* The status the engine reads for a package on a disk ("tampered" when
\* the read raises)
StatusOn(disk, meta_package_name, package_name) ==
    LET got == GetPackageCache(disk, meta_package_name, package_name)
    IN IF got.raised # NoError THEN "tampered" ELSE got.rec.status

\* ---------------------------------------------------------------------- C1
\* C1: in every state of every install or remove, the installer is invoked
\* for a package only with midinstall (resp. midremove) persisted for it by
\* the step just before, the status is still that while the installer runs
\* and when it has returned, and a write that makes a package installed
\* (resp. takes it from midremove to loaded) directly follows a successful
\* installer invocation for that package.
C1_MidBeforeInstaller ==
    /\ \A i \in 1..Len(trace) :
          trace[i].kind = "scm" =>
             /\ i > 1
             /\ trace[i - 1].kind = "write_cache"
             /\ StatusIn(CacheAt(i - 1), trace[i].meta, trace[i].pkg) = Mid(trace[i].sub)
    /\ \A i \in 1..Len(trace) :
          trace[i].kind = "write_cache" =>
             \A p \in AllPackages :
                LET before == StatusIn(CacheAt(i - 1), p[1], p[2])
                    after == StatusIn(trace[i].cache, p[1], p[2])
                    follows(sub) == /\ i > 1
                                    /\ trace[i - 1].kind = "scm"
                                    /\ trace[i - 1].sub = sub
                                    /\ trace[i - 1].meta = p[1]
                                    /\ trace[i - 1].pkg = p[2]
                IN /\ (after = "installed" /\ before # "installed") => follows("install")
                   /\ (after = "loaded" /\ before = "midremove") => follows("remove")
    /\ (pending # <<>> /\ Head(pending).kind = "scm") =>
          StatusIn(cache, Head(pending).meta, Head(pending).pkg) = Mid(Head(pending).sub)
    /\ (trace # <<>> /\ Last(trace).kind = "scm") =>
          StatusIn(cache, Last(trace).meta, Last(trace).pkg) = Mid(Last(trace).sub)

\* A remove has run to its end with the installer invoked (so an install
\* had succeeded before it).
C1_Witness ==
    /\ call.op = "remove"
    /\ result = "ok"
    /\ \E i \in 1..Len(trace) : trace[i].kind = "scm" /\ trace[i].sub = "remove"

\* ---------------------------------------------------------------------- C2
\* C2: when the installer returns a non-zero code the method ends there with
\* the failure, and the persisted status of the package is midinstall
\* (resp. midremove), not the following stable status and not a status
\* restored from before the call.
C2_FailureLeavesMid ==
    result = "ScmFailed" =>
       LET ev == Last(trace)
       IN /\ ev.kind = "scm"
          /\ pending = <<>>
          /\ StatusIn(cache, ev.meta, ev.pkg) = Mid(ev.sub)

C2_Witness ==
    /\ result = "ScmFailed"
    /\ Last(trace).sub = "remove"
    /\ StatusIn(cache, Last(trace).meta, Last(trace).pkg) = "midremove"


\* ------------------------------------------------------------- C3 and C10
\* The state in which install reaches the k-th selection of package_list
\* when every external call before it succeeds.
BeforeSelection(env, package_list, load_only, if_installed, k) ==
    Install(Entry, env, SubSeq(package_list, 1, k - 1), load_only, if_installed, 0)

\* The indexes of the matched packages whose status the check rejects as
\* corrupted, and of those it finds installed.
CorruptAt(st, meta_package_name, packages) ==
    {j \in 1..Len(packages) :
        StatusOn(st, meta_package_name, packages[j].name)
            \in {"midinstall", "midremove", "tampered"}}

InstalledAt(st, meta_package_name, packages) ==
    {j \in 1..Len(packages) :
        StatusOn(st, meta_package_name, packages[j].name) = "installed"}

PersistedMid(st, meta_package_name, packages) ==
    \E j \in 1..Len(packages) :
        StatusIn(st.cache, meta_package_name, packages[j].name) \in {"midinstall", "midremove"}

\* C3 as stated: an install whose selection matches a package persisted as
\* midinstall or midremove raises the corruption error at that selection,
\* for every mode and both values of load_only, having taken no step
\* (acquisition, installer, cache write) for it.
C3_AsStated ==
    result = "idle" =>
       \A env \in Envs, package_list \in ListsOver(Selections),
          load_only \in BOOLEAN, if_installed \in Modes :
          \A k \in 1..Len(package_list) :
             LET before == BeforeSelection(env, package_list, load_only, if_installed, k)
                 packages == Matched(before, env, package_list[k])
                 after == InstallSelection(before, env, package_list[k],
                                           load_only, if_installed, 0)
             IN (before.raised = NoError /\ PersistedMid(before, package_list[k][1], packages))
                   => /\ after.raised \in CorruptionErrors
                      /\ after.steps = before.steps

\* C3 (amended): such an install raises at that selection's status check,
\* having taken no step for it; the error is the corruption error, except
\* in mode exit when a package matched earlier in declaration order than
\* every corrupted one is installed: then it is the already-installed error.
C3_MidStopsInstall ==
    result = "idle" =>
       \A env \in Envs, package_list \in ListsOver(Selections),
          load_only \in BOOLEAN, if_installed \in Modes :
          \A k \in 1..Len(package_list) :
             LET before == BeforeSelection(env, package_list, load_only, if_installed, k)
                 meta_package_name == package_list[k][1]
                 packages == Matched(before, env, package_list[k])
                 after == InstallSelection(before, env, package_list[k],
                                           load_only, if_installed, 0)
                 installedFirst ==
                     \E j \in InstalledAt(before, meta_package_name, packages) :
                        \A c \in CorruptAt(before, meta_package_name, packages) : j < c
             IN (before.raised = NoError /\ PersistedMid(before, meta_package_name, packages))
                   => /\ after.steps = before.steps
                      /\ IF if_installed = "exit" /\ installedFirst
                         THEN after.raised = "AlreadyInstalled"
                         ELSE after.raised \in CorruptionErrors

\* An install in mode reinstall with load_only set has raised the corruption
\* error on a package persisted as midremove, without a step.
C3_Witness ==
    /\ call.op = "install"
    /\ call.if_installed = "reinstall"
    /\ call.load_only
    /\ result = "Corrupted"
    /\ trace = <<>>
    /\ \E j \in 1..Len(Matched(pre, call.env, call.package_list[1])) :
          StatusIn(pre.cache, call.package_list[1][1],
                   Matched(pre, call.env, call.package_list[1])[j].name) = "midremove"
    /\ Disk = pre

\* C10 as stated: an install in mode exit whose selection matches an
\* installed package raises the already-installed error at that selection,
\* having taken no step for it or for a dependency.
C10_AsStated ==
    result = "idle" =>
       \A env \in Envs, package_list \in ListsOver(Selections), load_only \in BOOLEAN :
          \A k \in 1..Len(package_list) :
             LET before == BeforeSelection(env, package_list, load_only, "exit", k)
                 meta_package_name == package_list[k][1]
                 packages == Matched(before, env, package_list[k])
                 after == InstallSelection(before, env, package_list[k], load_only, "exit", 0)
             IN (before.raised = NoError
                   /\ InstalledAt(before, meta_package_name, packages) # {})
                   => /\ after.raised = "AlreadyInstalled"
                      /\ after.steps = before.steps

\* C10 (amended): such an install raises at that selection's status check,
\* having taken no step for it or for a dependency; the error is the
\* already-installed error, except when a package matched earlier in
\* declaration order than every installed one is corrupted: then it is the
\* corruption error.
C10_ExitOnInstalled ==
    result = "idle" =>
       \A env \in Envs, package_list \in ListsOver(Selections), load_only \in BOOLEAN :
          \A k \in 1..Len(package_list) :
             LET before == BeforeSelection(env, package_list, load_only, "exit", k)
                 meta_package_name == package_list[k][1]
                 packages == Matched(before, env, package_list[k])
                 after == InstallSelection(before, env, package_list[k], load_only, "exit", 0)
                 corruptFirst ==
                     \E c \in CorruptAt(before, meta_package_name, packages) :
                        \A j \in InstalledAt(before, meta_package_name, packages) : c < j
             IN (before.raised = NoError
                   /\ InstalledAt(before, meta_package_name, packages) # {})
                   => /\ after.steps = before.steps
                      /\ IF corruptFirst
                         THEN after.raised \in CorruptionErrors
                         ELSE after.raised = "AlreadyInstalled"

\* An install in mode exit has raised the already-installed error without a
\* step, on a selection that matches an installed package and one that is
\* not loaded.
C10_Witness ==
    /\ call.op = "install"
    /\ call.if_installed = "exit"
    /\ result = "AlreadyInstalled"
    /\ trace = <<>>
    /\ Disk = pre
    /\ LET packages == Matched(pre, call.env, call.package_list[1])
           meta_package_name == call.package_list[1][1]
       IN /\ InstalledAt(pre, meta_package_name, packages) # {}
          /\ \E j \in 1..Len(packages) :
                StatusOn(pre, meta_package_name, packages[j].name) = "notloaded"


\* ---------------------------------------------------------------------- C4
\* The patterns the claims name for a package: its exact name, its anchored
\* name, or '.*'
NamesPackage(package_regex, package_name) ==
    \/ package_regex = package_name
    \/ package_regex = <<"^">> \o package_name \o <<"$">>
    \/ package_regex = PatAll

NamesAll(package_regex, packages) ==
    \A j \in 1..Len(packages) : NamesPackage(package_regex, packages[j].name)

HasScm(sub, meta_package_name, package_name) ==
    \E i \in 1..Len(trace) :
        /\ trace[i].kind = "scm"
        /\ trace[i].sub = sub
        /\ trace[i].meta = meta_package_name
        /\ trace[i].pkg = package_name

\* C4: in a remove, the first package the first selection matches is decided
\* on by its own status, whether the pattern is its exact name, its anchored
\* name or '.*': if that status is midinstall
\* or midremove the remove raises the corruption error without a step, and
\* if it is installed the remove neither raises the not-installed error nor
\* skips the package (the installer's remove is invoked for it).
C4_RemoveUsesPackageStatus ==
    (call.op = "remove" /\ Finished) =>
       LET selection == call.package_list[1]
           packages == Matched(pre, call.env, selection)
           status == StatusOn(pre, selection[1], packages[1].name)
       IN (packages # <<>> /\ NamesPackage(selection[2], packages[1].name)) =>
             /\ status \in {"midinstall", "midremove"} =>
                   (result = "Corrupted" /\ trace = <<>>)
             /\ status = "installed" =>
                   (result # "NotInstalled" /\ HasScm("remove", selection[1], packages[1].name))

\* ---------------------------------------------------------------------- C5
\* C5: from a state in which every package a selection matches (by exact
\* name, anchored name or '.*') is not loaded, an install of the selection that succeeds, followed by a remove
\* of the same selection with uninstall_only false, succeeds and leaves each
\* of those packages without content directory and without cache record.
C5_RoundTrip ==
    result = "idle" =>
       \A env \in Envs, selection \in Selections, exit_if_not_installed \in BOOLEAN :
          LET packages == Matched(Disk, env, selection)
              installed == Install(Entry, env, <<selection>>, FALSE, "exit", 0)
              removed == Remove(installed, env, <<selection>>, FALSE, exit_if_not_installed)
          IN (/\ packages # <<>>
              /\ NamesAll(selection[2], packages)
              /\ \A j \in 1..Len(packages) :
                    /\ StatusOn(Disk, selection[1], packages[j].name) = "notloaded"
                    /\ StatusIn(cache, selection[1], packages[j].name) = "notloaded"
              /\ installed.raised = NoError)
                => /\ removed.raised = NoError
                   /\ \A j \in 1..Len(packages) :
                         /\ JoinedName(selection[1], packages[j].name) \notin removed.dirs
                         /\ StatusIn(removed.cache, selection[1], packages[j].name) = "notloaded"

\* ---------------------------------------------------------------------- C6
NothingCorrupt(disk) ==
    \A p \in AllPackages : StatusOn(disk, p[1], p[2]) \in {"notloaded", "loaded", "installed"}

Acquired(meta_package_name, package_name) ==
    \E i \in 1..Len(trace) :
        trace[i].kind = "acquire" /\ trace[i].dir = JoinedName(meta_package_name, package_name)

\* C6: an install with load_only false and mode exit or skip, called with no
\* package corrupted and a first selection that matches (by exact name,
\* anchored name or '.*') only packages that are loaded or not loaded, leaves each matched package that was loaded
\* installed, without acquiring it again, unless an external call failed.
C6_LoadedGetsInstalled ==
    (/\ call.op = "install"
     /\ Finished
     /\ ~call.load_only
     /\ call.if_installed \in {"exit", "skip"}
     /\ result \notin {"ScmFailed", "AcquireFailed"}
     /\ NothingCorrupt(pre)) =>
       LET selection == call.package_list[1]
           packages == Matched(pre, call.env, selection)
       IN (/\ NamesAll(selection[2], packages)
           /\ \A j \in 1..Len(packages) :
                 StatusOn(pre, selection[1], packages[j].name) \in {"notloaded", "loaded"})
           => \A j \in 1..Len(packages) :
                 StatusOn(pre, selection[1], packages[j].name) = "loaded"
                    => /\ StatusIn(cache, selection[1], packages[j].name) = "installed"
                       /\ HasScm("install", selection[1], packages[j].name)
                       /\ ~Acquired(selection[1], packages[j].name)

\* ---------------------------------------------------------------------- C7
\* The packages the stored descriptors declare without dependencies
DeclaredAlone(disk) ==
    {p \in AllPackages :
        \E f \in DOMAIN disk.store :
            /\ DocOf(disk.store[f]).name = p[1]
            /\ \E q \in SeqRange(DocOf(disk.store[f]).packages) :
                  q.name = p[2] /\ "dependencies" \notin DOMAIN q}

\* C7: between two calls with no package corrupted, for every package
\* declared without dependencies whose status is notloaded, loaded or
\* installed, some install or remove call (some
\* selection, some flags), run with every external call succeeding, ends
\* with the package in another status.
C7_NoAbsorbingStatus ==
    (result = "idle" /\ NothingCorrupt(Disk)) =>
       \A p \in DeclaredAlone(Disk) :
          LET status == StatusOn(Disk, p[1], p[2])
          IN status \in {"notloaded", "loaded", "installed"} =>
                \E env \in Envs, selection \in Selections :
                   \/ \E load_only \in BOOLEAN, if_installed \in Modes :
                         StatusOn(Install(Entry, env, <<selection>>, load_only, if_installed, 0),
                                  p[1], p[2]) # status
                   \/ \E uninstall_only \in BOOLEAN, exit_if_not_installed \in BOOLEAN :
                         StatusOn(Remove(Entry, env, <<selection>>, uninstall_only,
                                         exit_if_not_installed),
                                  p[1], p[2]) # status

\* ---------------------------------------------------------------------- C8
\* C8: after an unload that succeeded, for every named meta-package that was
\* stored when it was called, no package of it is installed, the installer's
\* remove was invoked for each that was, and the descriptor is not found.
C8_UnloadRemovesPackages ==
    (call.op = "unload" /\ result = "ok") =>
       \A i \in 1..Len(call.name_list) :
          LET name == call.name_list[i]
              file_path == FindInOrder(pre.store, call.env.order, name)
          IN file_path # NoFile =>
                /\ FindInOrder(store, call.env.order, name) = NoFile
                /\ \A q \in SeqRange(DocOf(pre.store[file_path]).packages) :
                      /\ StatusIn(cache, name, q.name) # "installed"
                      /\ StatusIn(pre.cache, name, q.name) = "installed"
                            => HasScm("remove", name, q.name)

\* ---------------------------------------------------------------------- C9
\* C9: a load of one URI that serves a schema-valid descriptor whose name no
\* stored descriptor carries, with the fetch succeeding, returns normally
\* and the descriptor is then found by name, for both values of
\* skip_if_loaded.
C9_LoadStoresNewDescriptor ==
    (/\ call.op = "load"
     /\ Finished
     /\ Len(call.uri_list) = 1
     /\ result # "UrlopenFailed"
     /\ DocOf(Served(call.uri_list[1])).valid
     /\ FindInOrder(pre.store, call.env.order, DocOf(Served(call.uri_list[1])).name) = NoFile)
       => /\ result = "ok"
          /\ FindInOrder(store, call.env.order, DocOf(Served(call.uri_list[1])).name) # NoFile

\* --------------------------------------------------------------------- C11
AllStatusOn(st, meta_package_name, packages, statuses) ==
    /\ packages # <<>>
    /\ \A j \in 1..Len(packages) :
          StatusOn(st, meta_package_name, packages[j].name) \in statuses

\* C11: an install in mode skip whose selection matches only installed
\* packages, and an install in mode reinstall whose selection matches only
\* packages that are not loaded or loaded, goes through that selection
\* without raising and without a step (no acquisition, no installer call, no
\* write to the cache, a directory or a descriptor), for both values of
\* load_only.
C11_NothingToDo ==
    result = "idle" =>
       \A env \in Envs, package_list \in ListsOver(Selections),
          load_only \in BOOLEAN, if_installed \in {"skip", "reinstall"} :
          \A k \in 1..Len(package_list) :
             LET before == BeforeSelection(env, package_list, load_only, if_installed, k)
                 meta_package_name == package_list[k][1]
                 packages == Matched(before, env, package_list[k])
                 after == InstallSelection(before, env, package_list[k],
                                           load_only, if_installed, 0)
             IN (/\ before.raised = NoError
                 /\ AllStatusOn(before, meta_package_name, packages,
                                IF if_installed = "skip" THEN {"installed"}
                                ELSE {"notloaded", "loaded"}))
                   => after = before

\* An install in mode skip has returned without a step on a selection that
\* matches two packages, both installed.
C11_Witness ==
    /\ call.op = "install"
    /\ call.if_installed = "skip"
    /\ result = "ok"
    /\ trace = <<>>
    /\ Disk = pre
    /\ Len(Matched(pre, call.env, call.package_list[1])) = 2
    /\ AllStatusOn(pre, call.package_list[1][1],
                   Matched(pre, call.env, call.package_list[1]), {"installed"})

\* --------------------------------------------------------------------- C12
\* The pairs <<p, q>>: package p is declared, in a stored descriptor, with a
\* dependency reference that matches package q.
DependsOn(disk, env) ==
    {pq \in AllPackages \X AllPackages :
        \E f \in DOMAIN disk.store :
            /\ DocOf(disk.store[f]).name = pq[1][1]
            /\ \E package \in SeqRange(DocOf(disk.store[f]).packages) :
                  /\ package.name = pq[1][2]
                  /\ "dependencies" \in DOMAIN package
                  /\ \E d \in SeqRange(package.dependencies) :
                        /\ d[1] = pq[2][1]
                        /\ \E m \in SeqRange(Matched(disk, env, d)) : m.name = pq[2][2]}

\* A step that acquires package p or runs the installer for it
StepFor(ev, p) ==
    \/ ev.kind = "acquire" /\ ev.dir = JoinedName(p[1], p[2])
    \/ ev.kind = "scm" /\ ev.meta = p[1] /\ ev.pkg = p[2]

\* Every step taken for a package with dependencies was taken with each
\* package its references match persisted in one of the statuses.
DependenciesFirst(statuses) ==
    \A pq \in DependsOn(pre, call.env) :
       \A i \in 1..Len(trace) :
          StepFor(trace[i], pq[1]) =>
             StatusIn(CacheAt(i - 1), pq[2][1], pq[2][2]) \in statuses

\* A failure at a step taken for a dependency ends the call there, and a
\* dependent for which no step was taken before keeps the record it had.
DependencyFailureStops ==
    (result \in {"ScmFailed", "AcquireFailed"}) =>
       \A pq \in DependsOn(pre, call.env) :
          (/\ StepFor(Last(trace), pq[2])
           /\ \A i \in 1..Len(trace) : ~StepFor(trace[i], pq[1]))
             => /\ pending = <<>>
                /\ StatusIn(cache, pq[1][1], pq[1][2]) = StatusIn(pre.cache, pq[1][1], pq[1][2])
                /\ (JoinedName(pq[1][1], pq[1][2]) \in dirs)
                      = (JoinedName(pq[1][1], pq[1][2]) \in pre.dirs)

\* An exception raised while the dependencies of the first included package
\* are installed is what the install of the selection raises, with no step
\* after it.
DependencyErrorPropagates ==
    result = "idle" =>
       \A env \in Envs, selection \in Selections,
          load_only \in BOOLEAN, if_installed \in Modes :
          LET checked == CheckNotInstalled(Entry, selection[1],
                                           Matched(Entry, env, selection), if_installed)
              first == checked.packages[1]
              depRun == Install(Entry, env, first.dependencies, load_only, "skip", 1)
          IN (/\ checked.raised = NoError
              /\ checked.packages # <<>>
              /\ "dependencies" \in DOMAIN first
              /\ depRun.raised # NoError)
                => InstallSelection(Entry, env, selection, load_only, if_installed, 0) = depRun

\* C12 as stated: in every install, a step (acquisition, installer) is taken
\* for a package with dependencies only when every package its references
\* match is persisted as installed.
C12_AsStated ==
    call.op = "install" => DependenciesFirst({"installed"})

\* C12 (amended): the same for an install with load_only false; with
\* load_only true the packages the references match are persisted as loaded
\* or installed by then.  A failure while a dependency is installed ends the
\* install, and the dependent is left as it was.
C12_DependenciesFirst ==
    /\ call.op = "install" =>
          /\ DependenciesFirst(IF call.load_only THEN {"loaded", "installed"}
                               ELSE {"installed"})
          /\ DependencyFailureStops
    /\ DependencyErrorPropagates

\* An install of a package with a dependency has ended well, the installer
\* having run for the dependency and then for the dependent.
C12_Witness ==
    /\ call.op = "install"
    /\ ~call.load_only
    /\ result = "ok"
    /\ \E pq \in DependsOn(pre, call.env) :
          \E i, j \in 1..Len(trace) :
             /\ i < j
             /\ trace[i].kind = "scm" /\ StepFor(trace[i], pq[2])
             /\ trace[j].kind = "scm" /\ StepFor(trace[j], pq[1])

\* --------------------------------------------------------------------- C13
\* The records the cache holds for a package: one or none
RecordIn(c, meta_package_name, package_name) ==
    IF meta_package_name \in DOMAIN c /\ package_name \in DOMAIN c[meta_package_name]
    THEN {c[meta_package_name][package_name]}
    ELSE {}

\* Package p is matched by a selection of package_list
Selected(disk, env, package_list, p) ==
    \E k \in 1..Len(package_list) :
        /\ package_list[k][1] = p[1]
        /\ \E m \in SeqRange(Matched(disk, env, package_list[k])) : m.name = p[2]

\* The dependencies that were installed when the running install was called,
\* of a package the call selects, and that the call does not select itself.
InstalledDependencies ==
    {q \in AllPackages :
        /\ StatusOn(pre, q[1], q[2]) = "installed"
        /\ ~Selected(pre, call.env, call.package_list, q)
        /\ \E p \in AllPackages :
              /\ <<p, q>> \in DependsOn(pre, call.env)
              /\ Selected(pre, call.env, call.package_list, p)}

\* C13: in every state of an install, in every mode, a dependency that was
\* installed when the install was called has had no step taken for it
\* (no acquisition, no installer call) and has the record it had, and the
\* install does not raise the already-installed error unless a package it
\* selects is installed; and
\* installing the dependencies of a package whose dependency references
\* each match a package, all of them installed, raises nothing and takes no step, so that it is not what makes
\* the install fail.
C13_InstalledDependencyUntouched ==
    /\ call.op = "install" =>
          \A q \in InstalledDependencies :
             /\ \A i \in 1..Len(trace) : ~StepFor(trace[i], q)
             /\ \A i \in 0..Len(trace) :
                   RecordIn(CacheAt(i), q[1], q[2]) = RecordIn(pre.cache, q[1], q[2])
             /\ RecordIn(cache, q[1], q[2]) = RecordIn(pre.cache, q[1], q[2])
             /\ JoinedName(q[1], q[2]) \in dirs
             /\ result = "AlreadyInstalled" =>
                   \E p \in AllPackages :
                      /\ Selected(pre, call.env, call.package_list, p)
                      /\ StatusOn(Disk, p[1], p[2]) = "installed"
    /\ result = "idle" =>
          \A env \in Envs, load_only \in BOOLEAN, p \in AllPackages :
             LET file_path == FindInOrder(store, env.order, p[1])
                 declared == SelectSeq(DocOf(store[file_path]).packages,
                                       LAMBDA x : x.name = p[2])
             IN (/\ file_path # NoFile
                 /\ declared # <<>>
                 /\ "dependencies" \in DOMAIN declared[1]
                 /\ \A d \in SeqRange(declared[1].dependencies) :
                       Matched(Disk, env, d) # <<>>
                 /\ \A q \in AllPackages :
                       <<p, q>> \in DependsOn(Disk, env) => StatusOn(Disk, q[1], q[2]) = "installed")
                   => ResolveDependencies(Entry, env, declared, load_only, 0) = Entry

\* An install in mode reinstall of an installed package has ended well with
\* the installer run for it, its dependency having been installed when the
\* install was called.
C13_Witness ==
    /\ call.op = "install"
    /\ call.if_installed = "reinstall"
    /\ result = "ok"
    /\ InstalledDependencies # {}
    /\ \E i \in 1..Len(trace) : trace[i].kind = "scm"

\* --------------------------------------------------------------------- C14
\* C14: in an update whose selections all have a package component, no
\* descriptor is fetched, and an installed package that no selection's
\* pattern matches has no installer call made for it and keeps its record.
C14_UpdateOnlyMatched ==
    (/\ call.op = "update"
     /\ call.package_list # <<>>
     /\ \A k \in 1..Len(call.package_list) : call.package_list[k][2] # NoRegex) =>
       /\ \A i \in 1..Len(trace) : trace[i].kind # "urlopen"
       /\ \A p \in AllPackages :
             (/\ StatusOn(pre, p[1], p[2]) = "installed"
              /\ ~Selected(pre, call.env, call.package_list, p))
                => /\ \A i \in 1..Len(trace) : ~StepFor(trace[i], p)
                   /\ RecordIn(cache, p[1], p[2]) = RecordIn(pre.cache, p[1], p[2])

\* --------------------------------------------------------------------- C15
\* The meta-packages stored on a disk
StoredNames(disk) == {DocOf(disk.store[f]).name : f \in DOMAIN disk.store}

\* The packages the descriptors stored on a disk declare
Declared(disk) ==
    {p \in AllPackages :
        \E f \in DOMAIN disk.store :
            /\ DocOf(disk.store[f]).name = p[1]
            /\ \E q \in SeqRange(DocOf(disk.store[f]).packages) : q.name = p[2]}

\* Package p went installed -> midinstall -> installed around an installer
\* call in the run so far.
Reinstalled(p) ==
    \E i \in 2..Len(trace) - 1 :
        /\ trace[i].kind = "scm" /\ trace[i].sub = "install" /\ StepFor(trace[i], p)
        /\ trace[i - 1].kind = "write_cache"
        /\ StatusIn(CacheAt(i - 2), p[1], p[2]) = "installed"
        /\ StatusIn(trace[i - 1].cache, p[1], p[2]) = "midinstall"
        /\ trace[i + 1].kind = "write_cache"
        /\ StatusIn(trace[i + 1].cache, p[1], p[2]) = "installed"

ExternalFailures == {"ScmFailed", "AcquireFailed", "UrlopenFailed"}

\* Every dependency reference of a stored descriptor matches a package of a
\* stored descriptor.
DependenciesResolve(disk, env) ==
    \A f \in DOMAIN disk.store :
       \A package \in SeqRange(DocOf(disk.store[f]).packages) :
          "dependencies" \in DOMAIN package =>
             \A d \in SeqRange(package.dependencies) : Matched(disk, env, d) # <<>>

\* C15: an update with an empty list, called with no package corrupted and
\* every dependency reference resolving to a stored package, and ended
\* without an external call failing, has returned normally, has
\* fetched the descriptor of every stored meta-package, has reinstalled
\* every declared package that was installed (installed -> midinstall ->
\* installed), and has made no installer call for a declared package that
\* was loaded, which is still loaded.
C15_UpdateAll ==
    (/\ call.op = "update"
     /\ call.package_list = <<>>
     /\ Finished
     /\ result \notin ExternalFailures
     /\ NothingCorrupt(pre)
     /\ DependenciesResolve(pre, call.env)) =>
       /\ result = "ok"
       /\ \A f \in DOMAIN pre.store :
             \E i \in 1..Len(trace) :
                trace[i].kind = "urlopen" /\ trace[i].uri = DocOf(pre.store[f]).uri
       /\ \A p \in Declared(pre) :
             /\ StatusOn(pre, p[1], p[2]) = "installed" =>
                   (Reinstalled(p) /\ StatusIn(cache, p[1], p[2]) = "installed")
             /\ StatusOn(pre, p[1], p[2]) = "loaded" =>
                   /\ \A i \in 1..Len(trace) : ~StepFor(trace[i], p)
                   /\ StatusIn(cache, p[1], p[2]) = "loaded"

\* --------------------------------------------------------------------- C16
\* An argument of the update command that names a meta-package only
Bare(arg) == \A i \in 1..Len(arg) : arg[i] # "."

BareNames(args) == {args[k][1] : k \in 1..Len(args)}

\* C16: in every state of an update whose arguments are all bare
\* meta-package names, the only steps taken or still to take are the fetch of a
\* descriptor and the replacement of its file; the cache file and the
\* content directories are as they were when update was called, and so is
\* the stored descriptor of every meta-package the call does not name; when
\* the update has returned normally every named meta-package is stored.
C16_UpdateBareName ==
    (/\ call.op = "update"
     /\ call.args # <<>>
     /\ \A k \in 1..Len(call.args) : Bare(call.args[k])) =>
       /\ \A ev \in SeqRange(trace) \cup SeqRange(pending) :
             ev.kind \in {"urlopen", "remove_file", "write_file"}
       /\ cache = pre.cache
       /\ dirs = pre.dirs
       /\ \A f \in DOMAIN pre.store :
             DocOf(pre.store[f]).name \notin BareNames(call.args)
                => (f \in DOMAIN store /\ store[f] = pre.store[f])
       /\ result = "ok" =>
             \A name \in BareNames(call.args) :
                /\ FindInOrder(store, call.env.order, name) # NoFile
                /\ \E i \in 1..Len(trace) :
                      trace[i].kind = "write_file" /\ DocOf(trace[i].doc).name = name

\* An update of the bare name M has replaced the descriptor while a package
\* of M was installed.
C16_Witness ==
    /\ call.op = "update"
    /\ call.args = << <<"M">> >>
    /\ result = "ok"
    /\ \E i \in 1..Len(trace) : trace[i].kind = "write_file"
    /\ \E p \in AllPackages : p[1] = "M" /\ StatusOn(pre, p[1], p[2]) = "installed"

\* --------------------------------------------------------------------- C17
\* The pattern matches the whole of the string
FullMatch(pattern, string) == ReMatch(pattern \o <<"$">>, string)

\* C17: in an install or a remove, a step (acquisition, installer call) is
\* taken for a package that is no dependency of another only if a selection
\* of the call names its meta-package with a pattern that matches the whole
\* of its name.
C17_FullMatchSelects ==
    call.op \in {"install", "remove"} =>
       \A p \in AllPackages :
          (/\ \E i \in 1..Len(trace) : StepFor(trace[i], p)
           /\ \A x \in AllPackages : <<x, p>> \notin DependsOn(pre, call.env))
             => \E k \in 1..Len(call.package_list) :
                   /\ call.package_list[k][1] = p[1]
                   /\ FullMatch(call.package_list[k][2], p[2])

\* --------------------------------------------------------------------- C18
\* _get_package_cache on its own: the reads of a cache file and a packages
\* directory that the engine did not necessarily write itself (a record may
\* lack its status, hold a status that is none of package_statuses, or be
\* there without a directory).

StoredRecords ==
    {EmptyMap} \cup {[status |-> s] : s \in PackageStatuses \cup {"bogus"}}

\* The mappings of package names to records a meta-package key may hold
PackageMaps ==
    UNION {[names -> StoredRecords] : names \in SUBSET {PkgA, PkgAB}}

TamperedCaches ==
    {EmptyMap} \cup {[m \in {"M"} |-> packages] : packages \in PackageMaps}

InitGet ==
    /\ store = [f \in {"m.toml"} |-> "docM"]
    /\ dirs \in SUBSET {JoinedName("M", PkgA), JoinedName("M", PkgAB)}
    /\ cache \in TamperedCaches
    /\ call = [op |-> "none"]
    /\ pre = Disk
    /\ pending = <<>>
    /\ trace = <<>>
    /\ final = NoError
    /\ result = "idle"
    /\ instances = NoInstances

\* A status read: what _get_package_cache returns is kept as the one step of
\* the call.
CallGetPackageCache ==
    \E meta_package_name \in MetaNames, package_name \in {PkgA, PkgAB} :
       LET got == GetPackageCache(Entry, meta_package_name, package_name)
       IN /\ result = "idle"
          /\ call' = [op |-> "_get_package_cache",
                      meta_package_name |-> meta_package_name,
                      package_name |-> package_name]
          /\ pre' = Disk
          /\ pending' = <<>>
          /\ trace' = IF got.raised = NoError
                      THEN << [kind |-> "return", rec |-> got.rec] >> ELSE <<>>
          /\ final' = got.raised
          /\ result' = Outcome(got.raised)
          /\ UNCHANGED <<store, dirs, cache, instances>>

NextGet ==
    \/ CallGetPackageCache
    \/ Exit

SpecGet == InitGet /\ [][NextGet]_vars

\* C18: a status read of a package returns the record {status: notloaded}
\* when the package's content directory does not exist, whatever the cache
\* holds; when the directory exists it raises the corruption error if the
\* cache has no key for the meta-package or for the package, or the record
\* has no status or one that is none of the five, and returns the stored
\* record, as stored, otherwise; it writes nothing.
C18_StatusRead ==
    (call.op = "_get_package_cache" /\ Finished) =>
       LET m == call.meta_package_name
           n == call.package_name
           stored == RecordIn(cache, m, n)
       IN /\ Disk = pre
          /\ IF JoinedName(m, n) \notin dirs
             THEN result = "ok" /\ trace[1].rec = [status |-> "notloaded"]
             ELSE IF \/ stored = {}
                     \/ \E r \in stored :
                           \/ "status" \notin DOMAIN r
                           \/ r.status \notin {"notloaded", "loaded", "midinstall",
                                                "midremove", "installed"}
                  THEN result \in CorruptionErrors /\ trace = <<>>
                  ELSE result = "ok" /\ stored = {trace[1].rec}

\* A read has raised the corruption error on a record whose status is none
\* of the five, the directory being there.
C18_Witness ==
    /\ call.op = "_get_package_cache"
    /\ result = "CacheTampered"
    /\ JoinedName(call.meta_package_name, call.package_name) \in dirs
    /\ RecordIn(cache, call.meta_package_name, call.package_name) = {[status |-> "bogus"]}

\* --------------------------------------------------------------------- C19
\* C19: between two calls, for every package, the content directory exists
\* if and only if the cache holds a record for the package.
C19_DirectoryIffRecord ==
    result = "idle" =>
       \A p \in AllPackages :
          (JoinedName(p[1], p[2]) \in dirs) <=> (RecordIn(cache, p[1], p[2]) # {})

\* --------------------------------------------------------------------- C20
\* The statuses of the records a cache mapping holds
StatusesIn(c) ==
    {IF "status" \in DOMAIN c[m][n] THEN c[m][n].status ELSE "missing" :
        <<m, n>> \in {x \in MetaNames \X PackageNames :
                         x[1] \in DOMAIN c /\ x[2] \in DOMAIN c[x[1]]}}

WrittenStatuses == {"loaded", "midinstall", "installed", "midremove"}

\* C20: in every state, every record of the cache file, and of every cache
\* the running method has written or is still to write, has a status, one
\* of loaded, midinstall, installed and midremove.
C20_StatusEnum ==
    /\ StatusesIn(cache) \subseteq WrittenStatuses
    /\ \A ev \in SeqRange(trace) \cup SeqRange(pending) :
          ev.kind = "write_cache" => StatusesIn(ev.cache) \subseteq WrittenStatuses

\* Between two calls the cache holds records in each of the four statuses
\* but one: a package is loaded, one is installed and one is midremove.
C20_Witness ==
    /\ result = "idle"
    /\ {"loaded", "installed", "midremove"} \subseteq StatusesIn(cache)

\* --------------------------------------------------------------------- C21
\* The status check includes a package of that status in that mode
IncludedBy(if_installed, status) ==
    \/ status = "installed" /\ if_installed = "reinstall"
    \/ status \in {"notloaded", "loaded"} /\ if_installed # "reinstall"

\* The packages the running install includes: those it selects and the
\* status check lets through, and the dependencies of these that are not
\* installed.
IncludedPackages ==
    LET top == {p \in AllPackages :
                   /\ Selected(pre, call.env, call.package_list, p)
                   /\ IncludedBy(call.if_installed, StatusOn(pre, p[1], p[2]))}
    IN top \cup {q \in AllPackages :
                    /\ StatusOn(pre, q[1], q[2]) \in {"notloaded", "loaded"}
                    /\ \E p \in top : <<p, q>> \in DependsOn(pre, call.env)}

\* C21: in every state of an install with load_only set, no installer call
\* has been made or is still to be made, no cache write gives a package the
\* status midinstall or installed that it did not have before the write,
\* and when the install has returned normally every package it included is
\* persisted as loaded with its content directory on disk.
C21_LoadOnly ==
    (call.op = "install" /\ call.load_only) =>
       /\ \A ev \in SeqRange(trace) \cup SeqRange(pending) : ev.kind # "scm"
       /\ \A i \in 1..Len(trace) :
             trace[i].kind = "write_cache" =>
                \A p \in AllPackages :
                   StatusIn(trace[i].cache, p[1], p[2]) \in {"midinstall", "installed"}
                      => StatusIn(trace[i].cache, p[1], p[2])
                            = StatusIn(CacheAt(i - 1), p[1], p[2])
       /\ result = "ok" =>
             \A p \in IncludedPackages :
                /\ StatusIn(cache, p[1], p[2]) = "loaded"
                /\ JoinedName(p[1], p[2]) \in dirs

\* An install with load_only set has returned normally having acquired a
\* package and its dependency.
C21_Witness ==
    /\ call.op = "install"
    /\ call.load_only
    /\ result = "ok"
    /\ \E pq \in DependsOn(pre, call.env) :
          /\ {pq[1], pq[2]} \subseteq IncludedPackages
          /\ \E i, j \in 1..Len(trace) :
                /\ trace[i].kind = "acquire" /\ StepFor(trace[i], pq[1])
                /\ trace[j].kind = "acquire" /\ StepFor(trace[j], pq[2])

\* --------------------------------------------------------------------- C22
\* The trace of the running method holds, for package p, a cache write that
\* persists status `first`, later an installer call `sub`, later a cache
\* write that persists status `last`.
PassedThrough(p, first, sub, last) ==
    \E i, j, k \in 1..Len(trace) :
        /\ i < j /\ j < k
        /\ trace[i].kind = "write_cache"
        /\ StatusIn(trace[i].cache, p[1], p[2]) = first
        /\ trace[j].kind = "scm" /\ trace[j].sub = sub /\ StepFor(trace[j], p)
        /\ trace[k].kind = "write_cache"
        /\ StatusIn(trace[k].cache, p[1], p[2]) = last

\* In every state of a remove with uninstall_only set, no content directory
\* is deleted and no package that had a cache record loses it.
C22_Retains ==
    (call.op = "remove" /\ call.uninstall_only) =>
       /\ \A ev \in SeqRange(trace) \cup SeqRange(pending) : ev.kind # "rmtree"
       /\ pre.dirs \subseteq dirs
       /\ \A p \in AllPackages :
             RecordIn(pre.cache, p[1], p[2]) # {} => RecordIn(cache, p[1], p[2]) # {}

\* C22: a remove with uninstall_only set never deletes a content directory
\* or a cache record, and when its first selection matches only packages
\* that are installed (by exact name, anchored name or '.*') and no external
\* step fails, each of them is persisted as midremove, then handed to the
\* installer's remove, then persisted as loaded, and ends as loaded with its
\* content directory and a cache record.
C22_UninstallOnly ==
    /\ C22_Retains
    /\ (call.op = "remove" /\ call.uninstall_only /\ Finished
        /\ result \notin ExternalFailures) =>
          LET selection == call.package_list[1]
              packages == Matched(pre, call.env, selection)
          IN (/\ packages # <<>>
              /\ NamesAll(selection[2], packages)
              /\ \A j \in 1..Len(packages) :
                    StatusOn(pre, selection[1], packages[j].name) = "installed") =>
                \A j \in 1..Len(packages) :
                   LET p == <<selection[1], packages[j].name>>
                   IN /\ PassedThrough(p, "midremove", "remove", "loaded")
                      /\ StatusIn(cache, p[1], p[2]) = "loaded"
                      /\ JoinedName(p[1], p[2]) \in dirs

\* --------------------------------------------------------------------- C23
\* C23: in a remove called with nothing corrupted and in which no external
\* step fails, for every package p the first selection matches whose status
\* is notloaded or loaded: the installer is not invoked for p and its record
\* and content directory are as they were; when the matched packages before
\* p are all installed, the remove raises the not-installed error if
\* exit_if_not_installed is set; and if it is not set the remove does not
\* raise that error and the installer's remove is invoked for every
\* installed package the selection matches.
C23_NotInstalledOrSkip ==
    (call.op = "remove" /\ Finished /\ result \notin ExternalFailures
     /\ NothingCorrupt(pre)) =>
       LET selection == call.package_list[1]
           packages == Matched(pre, call.env, selection)
           Status(j) == StatusOn(pre, selection[1], packages[j].name)
       IN \A j \in 1..Len(packages) :
             Status(j) \in {"notloaded", "loaded"} =>
                LET p == <<selection[1], packages[j].name>>
                IN /\ ~ HasScm("remove", p[1], p[2])
                   /\ RecordIn(cache, p[1], p[2]) = RecordIn(pre.cache, p[1], p[2])
                   /\ (JoinedName(p[1], p[2]) \in dirs) = (JoinedName(p[1], p[2]) \in pre.dirs)
                   /\ (call.exit_if_not_installed
                       /\ \A i \in 1..(j - 1) : Status(i) = "installed")
                         => result = "NotInstalled"
                   /\ ~ call.exit_if_not_installed =>
                         /\ result # "NotInstalled"
                         /\ \A i \in 1..Len(packages) :
                               Status(i) = "installed" =>
                                  HasScm("remove", selection[1], packages[i].name)

\* --------------------------------------------------------------------- C24
\* The kinds of mechs the build supports, in declared order
SupportedOf(env, mechs) ==
    SelectSeq(mechs, LAMBDA name : (name = "git" /\ env.git) \/ (name = "tar" /\ env.tar))

\* The acquisition steps the running method has taken for a package
AcquireSteps(meta_package_name, package_name) ==
    SelectSeq(trace,
              LAMBDA ev : /\ ev.kind = "acquire"
                          /\ ev.dir = JoinedName(meta_package_name, package_name))

\* C24: in every install, the acquisition of a package executes at most one
\* mechanism, and the one it executes is the first of the declared
\* mechanisms whose kind the build supports.
C24_OneMechanism ==
    call.op = "install" =>
       \A package \in SeqRange(DocP.packages) :
          LET steps == AcquireSteps("P", package.name)
          IN steps # <<>> =>
                /\ Len(steps) = 1
                /\ steps[1].mech = SupportedOf(call.env, package.mechs)[1]

\* The same, for the builds that support at most one of the declared kinds
C24_OneSupported ==
    call.op = "install" =>
       \A package \in SeqRange(DocP.packages) :
          LET steps == AcquireSteps("P", package.name)
          IN (steps # <<>> /\ Len(SupportedOf(call.env, package.mechs)) <= 1) =>
                /\ Len(steps) = 1
                /\ steps[1].mech = SupportedOf(call.env, package.mechs)[1]

\* --------------------------------------------------------------------- C25
\* The exceptions install raises when the acquisition has run no mechanism
MechanismErrors == {"NoMechanisms", "NoValidMechanism", "UnsupportedMechanism"}

ClaimedTarget(env, package) ==
    IF "target" \notin DOMAIN package \/ package.target = <<>>
    THEN [raised |-> NoError, target_dir |-> env.target_dir]
    ELSE LET found == SelectSeq(package.target, LAMBDA t : t \in env.existing)
         IN IF found = <<>> THEN [raised |-> "NoTarget", target_dir |-> None]
            ELSE [raised |-> NoError, target_dir |-> found[1]]

\* An install that selects package by name, called when it was notloaded,
\* resolves its target as `claimed`: it raises the no-valid-target error
\* exactly when `claimed` fails, and then it has taken no step and the
\* package has neither content directory nor record; otherwise every
\* installer call for the package and every record written for it that has
\* a target_dir carry the claimed one.
ResolvesAs(package, claimed) ==
    (/\ call.op = "install"
     /\ call.package_list[1] = <<"P", package.name>>
     /\ StatusOn(pre, "P", package.name) = "notloaded") =>
       /\ Finished => ((result = "NoTarget") = (claimed.raised = "NoTarget"))
       /\ result = "NoTarget" =>
             /\ trace = <<>>
             /\ JoinedName("P", package.name) \notin dirs
             /\ RecordIn(cache, "P", package.name) = {}
       /\ \A i \in 1..Len(trace) :
             /\ trace[i].kind = "scm" => trace[i].target_dir = claimed.target_dir
             /\ trace[i].kind = "write_cache" =>
                   \A rec \in RecordIn(trace[i].cache, "P", package.name) :
                      "target_dir" \in DOMAIN rec => rec.target_dir = claimed.target_dir

\* C26: the target of a newly installed package is the first existing
\* directory of its candidate list, or the default target when it has no
\* usable candidate list, and the resolution fails exactly when the list is
\* not empty and none of its entries exists, the package then being neither
\* acquired nor recorded.
C26_TargetResolution ==
    \A package \in SeqRange(DocP.packages) :
       ResolvesAs(package, ClaimedTarget(call.env, package))

\* The same for the packages that declare no candidate list or a list that
\* is not empty
C26_ListNotEmpty ==
    \A package \in SeqRange(DocP.packages) :
       ("target" \notin DOMAIN package \/ package.target # <<>>) =>
          ResolvesAs(package, ClaimedTarget(call.env, package))

\* --------------------------------------------------------------------- C27
\* The package-configs directory after the first i steps of the running
\* method
RECURSIVE StoreAt(_)
StoreAt(i) ==
    IF i = 0 THEN pre.store
    ELSE LET ev == trace[i]
         IN IF ev.kind = "remove_file" THEN Del(StoreAt(i - 1), ev.file)
            ELSE IF ev.kind = "write_file" THEN Put(StoreAt(i - 1), ev.file, ev.doc)
            ELSE StoreAt(i - 1)

\* C27: in a load or an update, a stored descriptor is deleted only after a
\* document of the same name has been fetched and has passed the schema;
\* and when the method ends on a failed fetch or a failed validation, the
\* package-configs directory is as it was before that fetch, every
\* descriptor stored then being still found by name.
C27_ValidatedBeforeDelete ==
    (call.op \in {"load", "update"}) =>
       /\ \A i \in 1..Len(trace) :
             trace[i].kind = "remove_file" =>
                /\ i > 1
                /\ trace[i - 1].kind = "urlopen"
                /\ DocOf(Served(trace[i - 1].uri)).valid
                /\ DocOf(Served(trace[i - 1].uri)).name
                      = DocOf(StoreAt(i - 1)[trace[i].file]).name
       /\ result \in {"UrlopenFailed", "ValidationError"} =>
             LET U == {j \in 1..Len(trace) : trace[j].kind = "urlopen"}
                 last == CHOOSE j \in U : \A k \in U : k <= j
             IN /\ store = StoreAt(last - 1)
                /\ \A f \in DOMAIN StoreAt(last - 1) :
                      FindInOrder(store, call.env.order, DocOf(StoreAt(last - 1)[f]).name) = f

\* An update of M has fetched a revision that fails the schema, and the
\* stored descriptor is still found.
C27_Witness ==
    /\ call.op = "update"
    /\ result = "ValidationError"
    /\ FindInOrder(store, call.env.order, "M") # NoFile
    /\ FindInOrder(pre.store, call.env.order, "M") # NoFile

\* --------------------------------------------------------------------- C28
\* C28: with a file that does not parse in the package-configs directory, no
\* install, remove, load or unload ends on the parse error of that file:
\* the lookup by name gives the matching descriptor or not-found.
C28_LookupToleratesJunk ==
    (call.op \in {"install", "remove", "load", "unload"} /\ Finished) =>
       result # TomlError

\* --------------------------------------------------------------------- C29
\* The content directories after the first i steps of the running method,
\* each step having succeeded
RECURSIVE DirsAt(_)
DirsAt(i) ==
    IF i = 0 THEN pre.dirs
    ELSE LET ev == trace[i]
         IN IF ev.kind = "acquire" THEN DirsAt(i - 1) \cup {ev.dir}
            ELSE IF ev.kind = "rmtree" THEN DirsAt(i - 1) \ {ev.dir}
            ELSE DirsAt(i - 1)

\* C29: when an install or a remove ends with an exception, the cache file
\* is the one its last cache write persisted (the one of the call when it
\* wrote nothing), so that every package keeps the record the last write
\* that changed it gave it; and the content directories are those its steps
\* before the failing one left (with, when the failing step is an
\* acquisition, possibly the directory it was creating).
C29_NothingRolledBack ==
    (call.op \in {"install", "remove"} /\ Finished /\ result # "ok") =>
       /\ cache = CacheAt(Len(trace))
       /\ \A p \in AllPackages, i \in 1..Len(trace) :
             (/\ trace[i].kind = "write_cache"
              /\ RecordIn(trace[i].cache, p[1], p[2]) # RecordIn(CacheAt(i - 1), p[1], p[2])
              /\ \A j \in (i + 1)..Len(trace) :
                    trace[j].kind = "write_cache" =>
                       RecordIn(trace[j].cache, p[1], p[2]) = RecordIn(trace[i].cache, p[1], p[2]))
                => RecordIn(cache, p[1], p[2]) = RecordIn(trace[i].cache, p[1], p[2])
       /\ IF result \in ExternalFailures
          THEN \/ dirs = DirsAt(Len(trace) - 1)
               \/ /\ Last(trace).kind = "acquire"
                  /\ dirs = DirsAt(Len(trace))
          ELSE dirs = DirsAt(Len(trace))

\* An install has failed at the acquisition of a package after it had
\* installed another one, which is still installed.
C29_Witness ==
    /\ call.op = "install"
    /\ result = "AcquireFailed"
    /\ \E p \in AllPackages :
          /\ StatusIn(pre.cache, p[1], p[2]) = "notloaded"
          /\ StatusIn(cache, p[1], p[2]) = "installed"
          /\ ~ StepFor(Last(trace), p)

\* --------------------------------------------------------------------- C30
\* Both processes have returned normally from installs of different
\* packages, each having run the installer.
BothInstalled ==
    /\ \A i \in Processes : instances[i].pc = "ok"
    /\ instances[1].selection # instances[2].selection

\* C30: every cache write of a process leaves, for each package other than
\* its own, the record the process read before its installer call, whatever
\* the other process has written since.
C30_WritesSnapshot ==
    [][\A i \in Processes :
          InstanceWrite(i) =>
             \A p \in AllPackages :
                p[2] # OwnPackage(i).name =>
                   RecordIn(cache', p[1], p[2]) = RecordIn(instances[i].snapshot, p[1], p[2])]_vars

\* Both installs have returned normally and the cache file does not record
\* both packages as installed.
C30_Witness ==
    /\ BothInstalled
    /\ \E i \in Processes :
          StatusIn(cache, instances[i].selection[1], OwnPackage(i).name) # "installed"

\* --------------------------------------------------------------------- C31
\* The pairs (package, package it declares a dependency on) of descriptor C
DeclaredC ==
    {pq \in {p.name : p \in SeqRange(DocC.packages)} \X {p.name : p \in SeqRange(DocC.packages)} :
        \E package \in SeqRange(DocC.packages) :
            /\ package.name = pq[1]
            /\ "dependencies" \in DOMAIN package
            /\ \E d \in SeqRange(package.dependencies) :
                  d[1] = "C" /\ ReMatch(d[2], pq[2])}

\* The pairs joined by a path of R of at most n + 1 edges
RECURSIVE Paths(_, _)
Paths(R, n) ==
    IF n = 0 THEN R
    ELSE LET P == Paths(R, n - 1)
         IN P \cup {<<ab[1][1], ab[2][2]>> : ab \in {x \in P \X R : x[1][2] = x[2][1]}}

ReachesC == Paths(DeclaredC, Len(DocC.packages))

\* The packages of C on a dependency cycle, and those that are on one or
\* depend on one
OnCycle == {n \in {p.name : p \in SeqRange(DocC.packages)} : <<n, n>> \in ReachesC}

LeadsToCycle == OnCycle \cup {n \in {p.name : p \in SeqRange(DocC.packages)} :
                                 \E m \in OnCycle : <<n, m>> \in ReachesC}

\* The status check of the running install over the packages its selection
\* matches: the exception it raises, the packages it lets through
CheckedC ==
    CheckNotInstalled(pre, "C",
                      SelectSeq(DocC.packages,
                                LAMBDA p : ReMatch(call.package_list[1][2], p.name)),
                      call.if_installed)

\* C31: an install never takes a step for a package on a dependency cycle;
\* when its status check passes and it includes a package that is on a cycle
\* or depends on one, it takes no step at all and ends by exceeding the
\* recursion limit, whatever the limit; and when it includes no such
\* package it ends without exceeding it.
C31_NoCycleGuard ==
    call.op = "install" =>
       /\ \A ev \in SeqRange(trace) \cup SeqRange(pending), n \in OnCycle :
             ~ StepFor(ev, <<"C", n>>)
       /\ \A n \in OnCycle : StatusOn(Disk, "C", n) = "notloaded"
       /\ Finished =>
             IF call.package_list[1][1] = "C"
                /\ CheckedC.raised = NoError
                /\ \E p \in SeqRange(CheckedC.packages) : p.name \in LeadsToCycle
             THEN result = "RecursionError" /\ trace = <<>>
             ELSE result # "RecursionError"

\* An install of a package on a cycle has ended in the recursion error, and
\* meanwhile a package with an acyclic dependency had been installed.
C31_Witness ==
    /\ call.op = "install"
    /\ call.package_list[1][2] \in OnCycle
    /\ result = "RecursionError"
    /\ StatusOn(Disk, "C", PkgW) = "installed"
    /\ StatusOn(Disk, "C", PkgZ) = "installed"

\* --------------------------------------------------------------------- C32
\* The installer calls `sub` the running method has made for a package
ScmCalls(sub, meta_package_name, package_name) ==
    {i \in 1..Len(trace) :
        /\ trace[i].kind = "scm" /\ trace[i].sub = sub
        /\ trace[i].meta = meta_package_name /\ trace[i].pkg = package_name}

\* C32: an install (not load-only, mode exit or skip) of the selection '.*'
\* over descriptor D, whose package p2 depends on its package p1, called
\* with both notloaded and in which no external step fails, returns
\* normally with both installed and the installer invoked once for each.
C32_SelectionWithDependency ==
    (/\ call.op = "install"
     /\ ~ call.load_only
     /\ call.if_installed \in {"exit", "skip"}
     /\ call.package_list[1] = <<"D", PatAll>>
     /\ \A p \in SeqRange(DocD.packages) : StatusOn(pre, "D", p.name) = "notloaded"
     /\ Finished
     /\ result \notin ExternalFailures) =>
       /\ result = "ok"
       /\ \A p \in SeqRange(DocD.packages) :
             /\ StatusIn(cache, "D", p.name) = "installed"
             /\ Cardinality(ScmCalls("install", "D", p.name)) = 1

\* The same install with load_only set: both packages end loaded.
C32_LoadOnly ==
    (/\ call.op = "install"
     /\ call.load_only
     /\ call.if_installed \in {"exit", "skip"}
     /\ call.package_list[1] = <<"D", PatAll>>
     /\ \A p \in SeqRange(DocD.packages) : StatusOn(pre, "D", p.name) = "notloaded"
     /\ Finished
     /\ result \notin ExternalFailures) =>
       /\ result = "ok"
       /\ \A p \in SeqRange(DocD.packages) : StatusIn(cache, "D", p.name) = "loaded"

\* --------------------------------------------------------------------- C33
\* Every call of the installer's remove carries the given fields of the
\* record the package has in the cache file at the call.
RemoveCarries(fields) ==
    \A i \in 1..Len(trace) :
       (trace[i].kind = "scm" /\ trace[i].sub = "remove") =>
          \A rec \in RecordIn(CacheAt(i - 1), trace[i].meta, trace[i].pkg) :
             \A f \in fields : trace[i][f] = rec[f]

\* C33: in every remove, the target_dir, the tags and the hostname override
\* handed to the installer's remove are those of the package's record,
\* whatever the configuration of the engine that removes; and the remove
\* does not fail on building the installer's arguments.
C33_RemoveUsesRecord ==
    call.op = "remove" =>
       /\ RemoveCarries({"target_dir", "tags", "hostname"})
       /\ result # "TypeError"

\* The same for the target_dir and the tags alone
C33_TargetAndTags ==
    call.op = "remove" => RemoveCarries({"target_dir", "tags"})

\* --------------------------------------------------------------------- C34
\* Every record written right after a call of the installer's install
\* holds, in the given fields, the values that call was made with.
InstallRecords(fields) ==
    \A i \in 2..Len(trace) :
       (/\ trace[i].kind = "write_cache"
        /\ trace[i - 1].kind = "scm"
        /\ trace[i - 1].sub = "install") =>
          \A rec \in RecordIn(trace[i].cache, trace[i - 1].meta, trace[i - 1].pkg) :
             /\ rec.status = "installed"
             /\ \A f \in fields : rec[f] = trace[i - 1][f]

Reinstalling ==
    /\ call.op = "install"
    /\ call.if_installed = "reinstall"

\* C34: the record persisted by a reinstall holds the target_dir, the tags
\* and the hostname that the installer was called with for that reinstall.
C34_RecordIsPerformed ==
    Reinstalling => InstallRecords({"target_dir", "tags", "hostname"})

\* The same for the target_dir and the tags alone
C34_TargetAndTags ==
    Reinstalling => InstallRecords({"target_dir", "tags"})

\* The record of a first install holds all three values of its call
C34_FirstInstall ==
    (call.op = "install" /\ ~ Reinstalling) =>
        InstallRecords({"target_dir", "tags", "hostname"})

\* --------------------------------------------------------------------- C35
\* The names of the meta-packages whose descriptor the running load or
\* update loads or replaces
Subjects ==
    IF call.op = "load" THEN {DocOf(Served(uri)).name : uri \in SeqRange(call.uri_list)}
    ELSE IF call.op = "update" THEN {sel[1] : sel \in SeqRange(call.package_list)}
    ELSE {}

\* The stored descriptors of the other meta-packages are where and what
\* they were when the method was called.
OthersKept ==
    \A f \in DOMAIN pre.store :
       DocOf(pre.store[f]).name \notin Subjects =>
          /\ f \in DOMAIN store
          /\ store[f] = pre.store[f]

\* No two stored descriptors carry the same name
OnePerName ==
    \A f, g \in DOMAIN store :
       DocOf(store[f]).name = DocOf(store[g]).name => f = g

\* C35: a load or an update leaves the stored descriptor of every other
\* meta-package in place and unchanged, and no name is ever carried by two
\* stored descriptors.
C35_DescriptorsApart ==
    /\ call.op \in {"load", "update"} => OthersKept
    /\ OnePerName

\* The second half alone
C35_OnePerName == OnePerName

\* --------------------------------------------------------------------- C36
\* Process i has written midinstall for its package
PersistedMidinstall(i) ==
    \/ instances[i].pc \in {"ok", "ScmFailed"}
    \/ instances[i].pc = "installing" /\ Len(instances[i].pending) <= 2

\* Process i has run the installer
InvokedInstaller(i) ==
    \/ instances[i].pc \in {"ok", "ScmFailed"}
    \/ instances[i].pc = "installing" /\ Len(instances[i].pending) <= 1

\* Process i has passed the status check of install: the package was not
\* loaded when it was called
PassedStatusCheck(i) ==
    instances[i].pc \in {"loading", "installing", "ok", "ScmFailed", "AcquireFailed",
                         "Impossible"}

\* C36: of two processes that install the same package, at most one runs
\* the installer for it; and once one of them has written midinstall the
\* other has not passed its status check (it has not been called, or the
\* check has failed).
C36_InstallerOnce ==
    \A i, j \in Processes :
       (/\ i # j
        /\ instances[i].selection = instances[j].selection
        /\ PersistedMidinstall(i)) =>
           /\ ~ (InvokedInstaller(i) /\ InvokedInstaller(j))
           /\ ~ PassedStatusCheck(j)

\* The first half alone: at most one of them runs the installer
C36_NotBoth ==
    \A i, j \in Processes :
       (i # j /\ instances[i].selection = instances[j].selection) =>
           ~ (InvokedInstaller(i) /\ InvokedInstaller(j))

\* A process called after the other has written midinstall, or after the
\* other's install has returned, fails its status check.
C36_CalledAfterwards ==
    [][\A i, j \in Processes :
          (/\ i # j
           /\ PersistedMidinstall(j)
           /\ instances[i].pc = "idle"
           /\ instances'[i].pc # "idle"
           /\ instances'[i].selection = instances[j].selection) =>
              instances'[i].pc \in {"Corrupted", "AlreadyInstalled"}]_vars

====
